---------------------------- MODULE Spec2Model ----------------------------
(***************************************************************************)
(* Material inventory stock ledger of backend/routes/materials.py.        *)
(*                                                                         *)
(* Numbers.  The program computes with binary floats and rounds them at   *)
(* fixed decimal places.  The model computes with exact decimal fixed-    *)
(* point integers:                                                         *)
(*   quantities  in steps of 1/QtyRes  (one digit finer than the 4 places *)
(*               _round_qty keeps, so that inputs off the stored grid and *)
(*               the rounding itself are both represented);               *)
(*   unit costs  in steps of 1/CostRes (4 places);                        *)
(*   money       in steps of 1/MoneyRes (2 places, cents).                *)
(* round() is round-half-to-even, as Python's.  Dates are integers        *)
(* YYYYMMDD, months YYYYMM, datetimes YYYYMMDDHH.                         *)
(***************************************************************************)
EXTENDS Integers, Sequences, FiniteSets, TLC

VARIABLES db, last, writes, sess

vars == <<db, last, writes, sess>>

----------------------------------------------------------------------------
(* Bounds of the model.                                                    *)

(* The number of writes (purchase batches, usage creations, updates and    *)
(* deletions that succeed) a behaviour applies.  It bounds every           *)
(* autoincrement counter, and the chain of values that updates with a      *)
(* blank unit_cost_snapshot, which re-read the average cost, run through.  *)
(* With concurrent sessions it is the number of transactions opened.       *)
MaxWrites == 3

----------------------------------------------------------------------------
(* Decimal places and resolutions.                                         *)

QtyPlaces == 4

MoneyPlaces == 2

CostPlaces == 4

RECURSIVE Pow10(_)
Pow10(n) == IF n = 0 THEN 1 ELSE 10 * Pow10(n - 1)

QtyRes == Pow10(QtyPlaces + 1)

CostRes == Pow10(CostPlaces)

MoneyRes == Pow10(MoneyPlaces)

Abs(x) == IF x < 0 THEN -x ELSE x

Sign(x) == IF x < 0 THEN -1 ELSE 1

(* <<quotient, remainder>> of a * b divided by d, for a, b >= 0 and d > 0, *)
(* directly where a * b fits in 32 bits and otherwise by long              *)
(* multiplication over the decimal digits of b, so that no intermediate    *)
(* value leaves 32 bits.                                                   *)
RECURSIVE MulDivMod(_, _, _)
MulDivMod(a, b, d) ==
    IF a = 0 \/ b = 0 THEN <<0, 0>>
    ELSE IF b <= 2147483647 \div a THEN <<(a * b) \div d, (a * b) % d>>
    ELSE LET hi == MulDivMod(a, b \div 10, d)
             t  == 10 * hi[2] + a * (b % 10)
         IN  <<10 * hi[1] + (t \div d), t % d>>

(* round(a * b / d) for a, b >= 0, d > 0, ties to the even neighbour.      *)
RoundMulDivNat(a, b, d) ==
    LET qr == MulDivMod(a, b, d)
        q  == qr[1]
        r  == qr[2]
    IN  IF 2 * r > d THEN q + 1
        ELSE IF 2 * r < d THEN q
        ELSE IF q % 2 = 0 THEN q ELSE q + 1

(* round(a * b / d) for integers a, b and d # 0.                           *)
RoundMulDiv(a, b, d) ==
    Sign(a) * Sign(b) * Sign(d) * RoundMulDivNat(Abs(a), Abs(b), Abs(d))

(* round(value, 4) of a quantity.                                          *)
round_qty(value) == RoundMulDiv(value, 1, QtyRes \div Pow10(QtyPlaces)) * (QtyRes \div Pow10(QtyPlaces))

(* _round_money: round(value, 2) of an amount.  Every amount the program   *)
(* stores or sums is a result of round(.., 2), so it is on the cents grid  *)
(* of the model and rounds to itself.                                      *)
round_money(value) == RoundMulDiv(value, 1, 1)

(* round(quantity * cost, 2): a quantity times a unit cost, in cents.      *)
round_amount(quantity, cost) == RoundMulDiv(quantity, cost, (QtyRes * CostRes) \div MoneyRes)

(* round(amount / qty, 4): an amount over a quantity, as a unit cost.      *)
round_unit_cost(amount, qty) == RoundMulDiv(amount, (QtyRes * CostRes) \div MoneyRes, qty)

(* abs(qty) > 1e-9: on the quantity grid the only value within 1e-9 of     *)
(* zero is zero.                                                           *)
above_epsilon(qty) == Abs(qty) >= 1

----------------------------------------------------------------------------
(* Request values.  A JSON scalar is blank (absent key read with .get,     *)
(* null or ""), a number, or a text that is no number / no date.  A key    *)
(* that an update payload does not carry at all is Absent.                 *)

Blank == [t |-> "blank", v |-> 0]

Num(n) == [t |-> "num", v |-> n]

BadText == [t |-> "text", v |-> 0]

Absent == [t |-> "absent", v |-> 0]

(* A quantity of n whole units and a cost / an amount of n whole units.    *)
Units(n) == n * QtyRes

Cost(n) == n * CostRes

Money(n) == n * MoneyRes

(* _parse_float(value, field, minimum=0)                                   *)
parse_float(value, minimum) ==
    IF value.t = "blank" THEN [err |-> "is required", val |-> 0]
    ELSE IF value.t # "num" THEN [err |-> "must be a number", val |-> 0]
    ELSE IF value.v < minimum THEN [err |-> "must be >= 0", val |-> 0]
    ELSE [err |-> "", val |-> value.v]

(* A calendar date YYYYMMDD that exists (the model's dates avoid the 29th  *)
(* to 31st of short months).                                               *)
IsDate(d) == /\ (d \div 100) % 100 \in 1..12
             /\ d % 100 \in 1..31

(* _parse_date(value, field, default=...)                                  *)
parse_date(value, default) ==
    IF value.t = "blank" THEN [err |-> "", val |-> default]
    ELSE IF value.t = "num" /\ IsDate(value.v) THEN [err |-> "", val |-> value.v]
    ELSE [err |-> "must be YYYY-MM-DD", val |-> 0]

(* The first day of the month after month YYYYMM, as _parse_month's end.  *)
month_end_of(month) ==
    IF month % 100 = 12 THEN ((month \div 100) + 1) * 10000 + 101
    ELSE (month + 1) * 100 + 1

(* _parse_month(value, default_today=False): text, start, end, error.      *)
parse_month(value) ==
    IF value.t = "blank" THEN [err |-> "month is required (YYYY-MM)", text |-> 0, start |-> 0, end |-> 0]
    ELSE IF value.t # "num" \/ value.v % 100 < 1 \/ value.v % 100 > 12
         THEN [err |-> "month must be YYYY-MM", text |-> 0, start |-> 0, end |-> 0]
    ELSE [err |-> "", text |-> value.v, start |-> value.v * 100 + 1, end |-> month_end_of(value.v)]

(* _statement_month_from_date                                              *)
statement_month_from_date(purchase_date) == purchase_date \div 100

(* datetime.combine(day, time(hour)); time.min is hour 0 and time.max     *)
(* (23:59:59.999999) is kept at its hour, 23: every stored txn_date is at *)
(* 12:00 or 18:00.                                                         *)
to_txn_datetime(day, hour) == day * 100 + hour

time_min == 0

time_max == 23

PurchaseHour == 12

UsageHour == 18

(* NULL of a foreign key or of an optional argument.                       *)
None == 0

----------------------------------------------------------------------------
(* The datastore.  A database state is a record of tables:                 *)
(*   items           material id -> [name, spec, unit, reference_cost,     *)
(*                   is_active]                            (MaterialItem)   *)
(*   batches         set of MaterialPurchaseBatch rows                     *)
(*   purchase_items  set of MaterialPurchaseItem rows                      *)
(*   usages          set of TaskMaterialUsage rows                         *)
(*   txns            set of MaterialStockTransaction rows (the ledger)     *)
(*   seq             the autoincrement counter of each table               *)

RECURSIVE SumQty(_)
SumQty(S) == IF S = {} THEN 0
             ELSE LET x == CHOOSE y \in S : TRUE IN x.qty_delta + SumQty(S \ {x})

RECURSIVE SumAmount(_)
SumAmount(S) == IF S = {} THEN 0
                ELSE LET x == CHOOSE y \in S : TRUE IN x.amount_delta + SumAmount(S \ {x})

RECURSIVE MaxTxnDate(_)
MaxTxnDate(S) == IF S = {} THEN None
                 ELSE LET x == CHOOSE y \in S : TRUE
                          m == MaxTxnDate(S \ {x})
                      IN  IF x.txn_date > m THEN x.txn_date ELSE m

(* Mutant: the snapshot query without its txn_date <= as_of filter.        *)
snapshot_rows_any_date(d, as_of, material_item_id) ==
    {t \in d.txns : t.material_item_id = material_item_id}

(* The ledger rows the snapshot query selects for one material: the        *)
(* txn_date <= as_of filter is applied only when as_of is given.           *)
snapshot_rows(d, as_of, material_item_id) ==
    {t \in d.txns : /\ t.material_item_id = material_item_id
                    /\ (as_of # None => t.txn_date <= as_of)}

(* _material_stock_snapshot_map: one entry per material that has a row in  *)
(* the filtered ledger (GROUP BY); material_item_ids = {} is no filter.    *)
material_stock_snapshot_map(d, as_of, material_item_ids) ==
    LET grouped == {t.material_item_id : t \in
                      {t \in d.txns : /\ (as_of # None => t.txn_date <= as_of)
                                      /\ (material_item_ids # {} => t.material_item_id \in material_item_ids)}}
    IN  [m \in grouped |->
           LET rows   == snapshot_rows(d, as_of, m)
               qty    == SumQty(rows)
               amount == SumAmount(rows)
           IN  [qty_on_hand  |-> round_qty(qty),
                stock_amount |-> round_money(amount),
                average_cost |-> IF above_epsilon(qty) THEN round_unit_cost(amount, qty) ELSE 0,
                last_txn_at  |-> MaxTxnDate(rows)]]

(* _current_average_cost                                                   *)
current_average_cost(d, material_item_id) ==
    LET map == material_stock_snapshot_map(d, None, {material_item_id})
        avg == IF material_item_id \in DOMAIN map THEN map[material_item_id].average_cost ELSE 0
    IN  IF avg > 0 THEN avg ELSE d.items[material_item_id].reference_cost

(* _serialize_stock_summary_rows: the row of every listed item.            *)
serialize_stock_summary_rows(d, item_ids, as_of) ==
    LET map == material_stock_snapshot_map(d, as_of, item_ids)
    IN  [m \in item_ids |->
           LET has == m \in DOMAIN map
               avg == IF has THEN map[m].average_cost ELSE 0
           IN  [qty_on_hand  |-> IF has THEN round_qty(map[m].qty_on_hand) ELSE 0,
                average_cost |-> IF avg # 0 THEN avg ELSE d.items[m].reference_cost,
                stock_amount |-> IF has THEN round_money(map[m].stock_amount) ELSE 0,
                last_txn_at  |-> IF has THEN map[m].last_txn_at ELSE None]]

(* Mutant: the summary as of the first instant of the as_of day.           *)
stock_summary_at_day_start(d, as_of_raw) ==
    LET parsed == parse_date(as_of_raw, None)
        as_of  == IF parsed.val # None THEN to_txn_datetime(parsed.val, time_min) ELSE None
    IN  IF parsed.err # "" THEN [status |-> 400, rows |-> << >>, as_of |-> None]
        ELSE [status |-> 200,
              rows   |-> serialize_stock_summary_rows(d, {m \in DOMAIN d.items : d.items[m].is_active}, as_of),
              as_of  |-> as_of]

(* stock_summary: GET /stock/summary?as_of=...                             *)
(* without include_inactive: the rows of the active items.                 *)
stock_summary(d, as_of_raw) ==
    LET parsed == parse_date(as_of_raw, None)
        as_of  == IF parsed.val # None THEN to_txn_datetime(parsed.val, time_max) ELSE None
    IN  IF parsed.err # "" THEN [status |-> 400, rows |-> << >>, as_of |-> None]
        ELSE [status |-> 200,
              rows   |-> serialize_stock_summary_rows(d, {m \in DOMAIN d.items : d.items[m].is_active}, as_of),
              as_of  |-> as_of]

----------------------------------------------------------------------------
(* Purchase batch ingestion.                                               *)

Response(status, msg, d) == [status |-> status, msg |-> msg, db |-> d]

(* _normalize_purchase_items, items k .. Len(raw_items): the first item    *)
(* that fails stops the scan with its error.                               *)
RECURSIVE normalize_from(_, _)
normalize_from(raw_items, k) ==
    IF k > Len(raw_items) THEN [err |-> "", items |-> << >>]
    ELSE LET raw  == raw_items[k]
             qty  == parse_float(raw.quantity, 0)
             cost == parse_float(raw.unit_cost, 0)
         IN  IF raw.material_item_id.t # "num"
                 THEN [err |-> "material_item_id is required", items |-> << >>]
             ELSE IF qty.err # "" THEN [err |-> "quantity " \o qty.err, items |-> << >>]
             ELSE IF cost.err # "" THEN [err |-> "unit_cost " \o cost.err, items |-> << >>]
             ELSE IF qty.val <= 0 THEN [err |-> "quantity must be > 0", items |-> << >>]
             ELSE LET rest == normalize_from(raw_items, k + 1)
                  IN  IF rest.err # "" THEN rest
                      ELSE [err   |-> "",
                            items |-> << [material_item_id |-> raw.material_item_id.v,
                                          quantity   |-> qty.val,
                                          unit_cost  |-> cost.val,
                                          amount     |-> round_amount(qty.val, cost.val),
                                          sort_order |-> k - 1] >> \o rest.items]

(* _normalize_purchase_items                                               *)
normalize_purchase_items(raw_items) ==
    IF Len(raw_items) = 0 THEN [err |-> "items is required and must be a non-empty array", items |-> << >>]
    ELSE normalize_from(raw_items, 1)

(* Mutant: the ledger row takes the item's unit cost as its amount.        *)
purchase_txn_wrong_amount(batch, purchase_item) ==
    [id                     |-> None,
     material_item_id       |-> purchase_item.material_item_id,
     task_id                |-> None,
     txn_type               |-> "purchase",
     qty_delta              |-> purchase_item.quantity,
     unit_cost              |-> purchase_item.unit_cost,
     amount_delta           |-> purchase_item.unit_cost,
     txn_date               |-> to_txn_datetime(batch.purchase_date, PurchaseHour),
     purchase_item_id       |-> purchase_item.id,
     task_material_usage_id |-> None]

(* Mutant: the purchase row is written without its back-reference.         *)
purchase_txn_without_reference(batch, purchase_item) ==
    [id                     |-> None,
     material_item_id       |-> purchase_item.material_item_id,
     task_id                |-> None,
     txn_type               |-> "purchase",
     qty_delta              |-> purchase_item.quantity,
     unit_cost              |-> purchase_item.unit_cost,
     amount_delta           |-> purchase_item.amount,
     txn_date               |-> to_txn_datetime(batch.purchase_date, PurchaseHour),
     purchase_item_id       |-> None,
     task_material_usage_id |-> None]

(* _create_purchase_stock_txn; the row's id is set when it is inserted.    *)
create_purchase_stock_txn(batch, purchase_item) ==
    [id                     |-> None,
     material_item_id       |-> purchase_item.material_item_id,
     task_id                |-> None,
     txn_type               |-> "purchase",
     qty_delta              |-> purchase_item.quantity,
     unit_cost              |-> purchase_item.unit_cost,
     amount_delta           |-> purchase_item.amount,
     txn_date               |-> to_txn_datetime(batch.purchase_date, PurchaseHour),
     purchase_item_id       |-> purchase_item.id,
     task_material_usage_id |-> None]

(* INSERT of a ledger row: the autoincrement key is taken from the         *)
(* sequence.                                                               *)
insert_txn(d, txn) ==
    [d EXCEPT !.txns = @ \cup {[txn EXCEPT !.id = d.seq.txn + 1]},
              !.seq.txn = @ + 1]

(* material.reference_cost = round(float(unit_cost or reference_cost or   *)
(* 0.0), 4)                                                                *)
purchase_reference_cost(unit_cost, reference_cost) ==
    IF unit_cost # 0 THEN unit_cost ELSE reference_cost

(* One turn of create_purchase_batch's loop: insert the purchase item,     *)
(* set the material's reference cost, add the item's ledger row.           *)
purchase_item_step(d, batch, item_data) ==
    LET purchase_item == [id               |-> d.seq.purchase_item + 1,
                          batch_id         |-> batch.id,
                          material_item_id |-> item_data.material_item_id,
                          quantity         |-> item_data.quantity,
                          unit_cost        |-> item_data.unit_cost,
                          amount           |-> item_data.amount,
                          sort_order       |-> item_data.sort_order]
        d1 == [d EXCEPT !.purchase_items = @ \cup {purchase_item},
                        !.seq.purchase_item = @ + 1,
                        !.items[purchase_item.material_item_id].reference_cost =
                            purchase_reference_cost(purchase_item.unit_cost, @)]
    IN  insert_txn(d1, create_purchase_stock_txn(batch, purchase_item))

RECURSIVE purchase_items_loop(_, _, _, _)
purchase_items_loop(d, batch, items_payload, k) ==
    IF k > Len(items_payload) THEN d
    ELSE purchase_items_loop(purchase_item_step(d, batch, items_payload[k]), batch, items_payload, k + 1)

(* MaterialPurchaseBatch.total_amount(): the sum of the batch's item       *)
(* amounts.                                                                *)
RECURSIVE SumItemAmount(_)
SumItemAmount(S) == IF S = {} THEN 0
                    ELSE LET x == CHOOSE y \in S : TRUE IN x.amount + SumItemAmount(S \ {x})

batch_items(d, batch_id) == {p \in d.purchase_items : p.batch_id = batch_id}

total_amount(d, batch_id) == round_money(SumItemAmount(batch_items(d, batch_id)))

(* The longest prefix of raw_items that _normalize_purchase_items accepts. *)
RECURSIVE accepted_prefix(_, _)
accepted_prefix(raw_items, n) ==
    IF n = 0 \/ normalize_from(SubSeq(raw_items, 1, n), 1).err = "" THEN n
    ELSE accepted_prefix(raw_items, n - 1)

(* Mutant: each item is checked and persisted in turn, so that the items   *)
(* before the first bad one stay persisted when the request is rejected.   *)
create_purchase_batch_item_by_item(d, data, today) ==
    LET pdate  == parse_date(data.purchase_date, today)
        month  == parse_month(data.statement_month)
        n      == accepted_prefix(data.items, Len(data.items))
        norm   == normalize_from(SubSeq(data.items, 1, n), 1)
        known  == \A i \in 1..n : norm.items[i].material_item_id \in DOMAIN d.items
        batch  == [id              |-> d.seq.batch + 1,
                   supplier_name   |-> data.supplier_name,
                   purchase_date   |-> pdate.val,
                   statement_month |-> IF data.statement_month.t # "blank" THEN month.text
                                       ELSE statement_month_from_date(pdate.val)]
        d1     == [d EXCEPT !.batches = @ \cup {batch}, !.seq.batch = @ + 1]
    IN  IF data.supplier_name = "" THEN Response(400, "supplier_name is required", d)
        ELSE IF pdate.err # "" THEN Response(400, "purchase_date " \o pdate.err, d)
        ELSE IF data.statement_month.t # "blank" /\ month.err # "" THEN Response(400, month.err, d)
        ELSE IF Len(data.items) = 0 THEN Response(400, "items is required and must be a non-empty array", d)
        ELSE IF ~known THEN Response(400, "Material item not found", d)
        ELSE Response(IF n = Len(data.items) THEN 201 ELSE 400, "",
                      purchase_items_loop(d1, batch, norm.items, 1))

(* create_purchase_batch: POST /purchases.  data = [supplier_name,         *)
(* purchase_date, statement_month, items]; supplier_name is the stripped   *)
(* text ("" when missing).                                                 *)
create_purchase_batch(d, data, today) ==
    LET pdate  == parse_date(data.purchase_date, today)
        month  == parse_month(data.statement_month)
        norm   == normalize_purchase_items(data.items)
        material_ids == {norm.items[i].material_item_id : i \in 1..Len(norm.items)}
        batch  == [id              |-> d.seq.batch + 1,
                   supplier_name   |-> data.supplier_name,
                   purchase_date   |-> pdate.val,
                   statement_month |-> IF data.statement_month.t # "blank" THEN month.text
                                       ELSE statement_month_from_date(pdate.val)]
        d1     == [d EXCEPT !.batches = @ \cup {batch}, !.seq.batch = @ + 1]
    IN  IF data.supplier_name = "" THEN Response(400, "supplier_name is required", d)
        ELSE IF pdate.err # "" THEN Response(400, "purchase_date " \o pdate.err, d)
        ELSE IF data.statement_month.t # "blank" /\ month.err # "" THEN Response(400, month.err, d)
        ELSE IF norm.err # "" THEN Response(400, norm.err, d)
        ELSE IF \E m \in material_ids : m \notin DOMAIN d.items
             THEN Response(400, "Material item not found", d)
        ELSE Response(201, "", purchase_items_loop(d1, batch, norm.items, 1))

----------------------------------------------------------------------------
(* Task access.  Tasks and users belong to the surrounding system; the     *)
(* model holds a fixed task table.                                         *)

Tasks == (1 :> [assigned_to_id |-> None, assigned_by_id |-> 3, assignees |-> {2}]) @@
         (2 :> [assigned_to_id |-> 4, assigned_by_id |-> None, assignees |-> {}])

(* Mutant: a worker is let into every task.                                *)
task_accessible_any_worker(task, role, user_id) ==
    role \in {"admin", "hq_staff", "worker"}
    \/ (role = "site_supervisor" /\ user_id # None
        /\ (task.assigned_by_id = user_id \/ task.assigned_to_id = user_id \/ user_id \in task.assignees))

(* _task_accessible                                                        *)
task_accessible(task, role, user_id) ==
    LET assigned_ids == (IF task.assigned_to_id # None THEN {task.assigned_to_id} ELSE {})
                        \cup {u \in task.assignees : u # None}
    IN  IF role \in {"admin", "hq_staff"} THEN TRUE
        ELSE IF user_id = None THEN FALSE
        ELSE IF role = "worker" THEN user_id \in assigned_ids
        ELSE IF role = "site_supervisor" THEN task.assigned_by_id = user_id \/ user_id \in assigned_ids
        ELSE FALSE

(* _get_task_or_403: 0 when the actor may use the task, else the status.   *)
get_task_or_403(task_id, actor) ==
    IF task_id \notin DOMAIN Tasks THEN 404
    ELSE IF ~task_accessible(Tasks[task_id], actor.role, actor.user_id) THEN 403
    ELSE 0

----------------------------------------------------------------------------
(* Task material usage ingestion.                                          *)

(* usage.stock_txn: the ledger rows whose back-reference is the usage (the *)
(* one-to-one relationship of the entity definitions).                     *)
stock_txn(d, usage_id) == {t \in d.txns : t.task_material_usage_id = usage_id}

(* Mutant: the usage's row is timestamped at mid-day, like a purchase.     *)
usage_txn_values_at_midday(txn, usage) ==
    [txn EXCEPT !.material_item_id = usage.material_item_id,
                !.task_id          = usage.task_id,
                !.txn_type         = "task_use",
                !.qty_delta        = -usage.used_qty,
                !.unit_cost        = usage.unit_cost_snapshot,
                !.amount_delta     = -usage.total_cost,
                !.txn_date         = to_txn_datetime(usage.used_date, PurchaseHour)]

(* The field values _upsert_usage_stock_txn assigns to the usage's row.    *)
usage_txn_values(txn, usage) ==
    [txn EXCEPT !.material_item_id = usage.material_item_id,
                !.task_id          = usage.task_id,
                !.txn_type         = "task_use",
                !.qty_delta        = -usage.used_qty,
                !.unit_cost        = usage.unit_cost_snapshot,
                !.amount_delta     = -usage.total_cost,
                !.txn_date         = to_txn_datetime(usage.used_date, UsageHour)]

(* MaterialStockTransaction(task_material_usage_id=usage.id)               *)
new_usage_txn(usage_id) ==
    [id |-> None, material_item_id |-> None, task_id |-> None, txn_type |-> "",
     qty_delta |-> 0, unit_cost |-> 0, amount_delta |-> 0, txn_date |-> None,
     purchase_item_id |-> None, task_material_usage_id |-> usage_id]

(* Mutant: the ledger row is inserted without looking for the one the      *)
(* usage already has.                                                      *)
upsert_always_inserts(d, usage) ==
    insert_txn(d, usage_txn_values(new_usage_txn(usage.id), usage))

(* _upsert_usage_stock_txn: update the usage's ledger row when there is    *)
(* one, insert it otherwise.                                               *)
upsert_usage_stock_txn(d, usage) ==
    LET linked == stock_txn(d, usage.id)
    IN  IF linked = {} THEN insert_txn(d, usage_txn_values(new_usage_txn(usage.id), usage))
        ELSE LET txn == CHOOSE t \in linked : TRUE
             IN  [d EXCEPT !.txns = (@ \ {txn}) \cup {usage_txn_values(txn, usage)}]

(* The unit cost a usage is given: the current average cost when the       *)
(* payload's unit_cost_snapshot is blank, else the parsed value.           *)
resolve_unit_cost(d, material_item_id, unit_cost_raw) ==
    IF unit_cost_raw.t = "blank"
        THEN [err |-> "", val |-> current_average_cost(d, material_item_id)]
    ELSE parse_float(unit_cost_raw, 0)

(* Mutant: a usage of more than the quantity on hand is refused.           *)
create_usage_within_stock(d, actor, task_id, data, today) ==
    LET access == get_task_or_403(task_id, actor)
        mid    == data.material_item_id
        qty    == parse_float(data.used_qty, 0)
        udate  == parse_date(data.used_date, today)
        cost   == resolve_unit_cost(d, mid.v, data.unit_cost_snapshot)
        usage  == [id                 |-> d.seq.usage + 1,
                   task_id            |-> task_id,
                   material_item_id   |-> mid.v,
                   used_qty           |-> round_qty(qty.val),
                   unit_cost_snapshot |-> cost.val,
                   total_cost         |-> round_amount(qty.val, cost.val),
                   used_date          |-> udate.val]
        d1     == [d EXCEPT !.usages = @ \cup {usage}, !.seq.usage = @ + 1]
    IN  IF access # 0 THEN Response(access, "task", d)
        ELSE IF mid.t # "num" THEN Response(400, "material_item_id is required", d)
        ELSE IF mid.v \notin DOMAIN d.items THEN Response(404, "Material item not found", d)
        ELSE IF qty.err # "" THEN Response(400, "used_qty " \o qty.err, d)
        ELSE IF qty.val <= 0 THEN Response(400, "used_qty must be > 0", d)
        ELSE IF qty.val > SumQty(snapshot_rows(d, None, mid.v)) THEN Response(400, "insufficient stock", d)
        ELSE IF udate.err # "" THEN Response(400, "used_date " \o udate.err, d)
        ELSE IF cost.err # "" THEN Response(400, "unit_cost_snapshot " \o cost.err, d)
        ELSE Response(201, "", upsert_usage_stock_txn(d1, usage))

(* create_task_material_usage: POST /tasks/<task_id>/usages.               *)
create_task_material_usage(d, actor, task_id, data, today) ==
    LET access == get_task_or_403(task_id, actor)
        mid    == data.material_item_id
        qty    == parse_float(data.used_qty, 0)
        udate  == parse_date(data.used_date, today)
        cost   == resolve_unit_cost(d, mid.v, data.unit_cost_snapshot)
        usage  == [id                 |-> d.seq.usage + 1,
                   task_id            |-> task_id,
                   material_item_id   |-> mid.v,
                   used_qty           |-> round_qty(qty.val),
                   unit_cost_snapshot |-> cost.val,
                   total_cost         |-> round_amount(qty.val, cost.val),
                   used_date          |-> udate.val]
        d1     == [d EXCEPT !.usages = @ \cup {usage}, !.seq.usage = @ + 1]
    IN  IF access # 0 THEN Response(access, "task", d)
        ELSE IF mid.t # "num" THEN Response(400, "material_item_id is required", d)
        ELSE IF mid.v \notin DOMAIN d.items THEN Response(404, "Material item not found", d)
        ELSE IF qty.err # "" THEN Response(400, "used_qty " \o qty.err, d)
        ELSE IF qty.val <= 0 THEN Response(400, "used_qty must be > 0", d)
        ELSE IF udate.err # "" THEN Response(400, "used_date " \o udate.err, d)
        ELSE IF cost.err # "" THEN Response(400, "unit_cost_snapshot " \o cost.err, d)
        ELSE Response(201, "", upsert_usage_stock_txn(d1, usage))

(* Mutant: the usage query without the usage id, any usage of the task.    *)
find_usage_of_task(d, task_id, usage_id) == {u \in d.usages : u.task_id = task_id}

(* The usage of the task with the given id, as the handlers' query.        *)
find_usage(d, task_id, usage_id) == {u \in d.usages : u.id = usage_id /\ u.task_id = task_id}

(* Mutant: an update that moves the usage to another material takes the   *)
(* material's current average cost as the new snapshot.                    *)
update_resnapshots_on_move(d, actor, task_id, usage_id, data) ==
    LET access == get_task_or_403(task_id, actor)
        found  == find_usage(d, task_id, usage_id)
        old    == CHOOSE u \in found : TRUE
        mid    == data.material_item_id
        has_m  == mid.t # "absent"
        material == IF has_m THEN mid.v ELSE old.material_item_id
        has_q  == data.used_qty.t # "absent"
        qty    == parse_float(data.used_qty, 0)
        has_d  == data.used_date.t # "absent"
        udate  == parse_date(data.used_date, old.used_date)
        has_c  == data.unit_cost_snapshot.t # "absent"
        cost   == resolve_unit_cost(d, material, IF has_c THEN data.unit_cost_snapshot ELSE Blank)
        used_qty  == IF has_q THEN round_qty(qty.val) ELSE old.used_qty
        unit_cost == IF has_c \/ has_m THEN cost.val ELSE old.unit_cost_snapshot
        usage  == [old EXCEPT !.material_item_id   = material,
                              !.used_qty           = used_qty,
                              !.used_date          = IF has_d THEN udate.val ELSE old.used_date,
                              !.unit_cost_snapshot = unit_cost,
                              !.total_cost         = round_amount(used_qty, unit_cost)]
        d1     == [d EXCEPT !.usages = (@ \ {old}) \cup {usage}]
    IN  IF access # 0 THEN Response(access, "task", d)
        ELSE IF found = {} THEN Response(404, "Task material usage not found", d)
        ELSE IF has_m /\ mid.t # "num" THEN Response(400, "material_item_id must be an integer", d)
        ELSE IF has_m /\ mid.v \notin DOMAIN d.items THEN Response(404, "Material item not found", d)
        ELSE IF has_q /\ qty.err # "" THEN Response(400, "used_qty " \o qty.err, d)
        ELSE IF has_q /\ qty.val <= 0 THEN Response(400, "used_qty must be > 0", d)
        ELSE IF has_d /\ udate.err # "" THEN Response(400, "used_date " \o udate.err, d)
        ELSE IF has_c /\ cost.err # "" THEN Response(400, "unit_cost_snapshot " \o cost.err, d)
        ELSE Response(200, "", upsert_usage_stock_txn(d1, usage))

(* Mutant: the material assigned at the start of the request stays         *)
(* assigned when a later field is refused.                                 *)
update_keeps_early_assignment(d, actor, task_id, usage_id, data) ==
    LET access == get_task_or_403(task_id, actor)
        found  == find_usage(d, task_id, usage_id)
        old    == CHOOSE u \in found : TRUE
        mid    == data.material_item_id
        has_m  == mid.t # "absent"
        material == IF has_m THEN mid.v ELSE old.material_item_id
        has_q  == data.used_qty.t # "absent"
        qty    == parse_float(data.used_qty, 0)
        has_d  == data.used_date.t # "absent"
        udate  == parse_date(data.used_date, old.used_date)
        has_c  == data.unit_cost_snapshot.t # "absent"
        cost   == resolve_unit_cost(d, material, data.unit_cost_snapshot)
        used_qty  == IF has_q THEN round_qty(qty.val) ELSE old.used_qty
        unit_cost == IF has_c THEN cost.val ELSE old.unit_cost_snapshot
        usage  == [old EXCEPT !.material_item_id   = material,
                              !.used_qty           = used_qty,
                              !.used_date          = IF has_d THEN udate.val ELSE old.used_date,
                              !.unit_cost_snapshot = unit_cost,
                              !.total_cost         = round_amount(used_qty, unit_cost)]
        d1     == [d EXCEPT !.usages = (@ \ {old}) \cup {usage}]
        dm     == [d EXCEPT !.usages = (@ \ {old}) \cup {[old EXCEPT !.material_item_id = material]}]
    IN  IF access # 0 THEN Response(access, "task", d)
        ELSE IF found = {} THEN Response(404, "Task material usage not found", d)
        ELSE IF has_m /\ mid.t # "num" THEN Response(400, "material_item_id must be an integer", d)
        ELSE IF has_m /\ mid.v \notin DOMAIN d.items THEN Response(404, "Material item not found", d)
        ELSE IF has_q /\ qty.err # "" THEN Response(400, "used_qty " \o qty.err, dm)
        ELSE IF has_q /\ qty.val <= 0 THEN Response(400, "used_qty must be > 0", dm)
        ELSE IF has_d /\ udate.err # "" THEN Response(400, "used_date " \o udate.err, dm)
        ELSE IF has_c /\ cost.err # "" THEN Response(400, "unit_cost_snapshot " \o cost.err, dm)
        ELSE Response(200, "", upsert_usage_stock_txn(d1, usage))

(* update_task_material_usage: PUT /tasks/<task_id>/usages/<usage_id>.     *)
(* A key the payload does not carry is Absent.  The average cost of a      *)
(* blank unit_cost_snapshot is read before the ledger row is rewritten.    *)
update_task_material_usage(d, actor, task_id, usage_id, data) ==
    LET access == get_task_or_403(task_id, actor)
        found  == find_usage(d, task_id, usage_id)
        old    == CHOOSE u \in found : TRUE
        mid    == data.material_item_id
        has_m  == mid.t # "absent"
        material == IF has_m THEN mid.v ELSE old.material_item_id
        has_q  == data.used_qty.t # "absent"
        qty    == parse_float(data.used_qty, 0)
        has_d  == data.used_date.t # "absent"
        udate  == parse_date(data.used_date, old.used_date)
        has_c  == data.unit_cost_snapshot.t # "absent"
        cost   == resolve_unit_cost(d, material, data.unit_cost_snapshot)
        used_qty  == IF has_q THEN round_qty(qty.val) ELSE old.used_qty
        unit_cost == IF has_c THEN cost.val ELSE old.unit_cost_snapshot
        usage  == [old EXCEPT !.material_item_id   = material,
                              !.used_qty           = used_qty,
                              !.used_date          = IF has_d THEN udate.val ELSE old.used_date,
                              !.unit_cost_snapshot = unit_cost,
                              !.total_cost         = round_amount(used_qty, unit_cost)]
        d1     == [d EXCEPT !.usages = (@ \ {old}) \cup {usage}]
    IN  IF access # 0 THEN Response(access, "task", d)
        ELSE IF found = {} THEN Response(404, "Task material usage not found", d)
        ELSE IF has_m /\ mid.t # "num" THEN Response(400, "material_item_id must be an integer", d)
        ELSE IF has_m /\ mid.v \notin DOMAIN d.items THEN Response(404, "Material item not found", d)
        ELSE IF has_q /\ qty.err # "" THEN Response(400, "used_qty " \o qty.err, d)
        ELSE IF has_q /\ qty.val <= 0 THEN Response(400, "used_qty must be > 0", d)
        ELSE IF has_d /\ udate.err # "" THEN Response(400, "used_date " \o udate.err, d)
        ELSE IF has_c /\ cost.err # "" THEN Response(400, "unit_cost_snapshot " \o cost.err, d)
        ELSE Response(200, "", upsert_usage_stock_txn(d1, usage))

(* Mutant: the delete takes every ledger row of the usage's material along. *)
delete_usage_and_material_rows(d, actor, task_id, usage_id) ==
    LET access == get_task_or_403(task_id, actor)
        found  == find_usage(d, task_id, usage_id)
        usage  == CHOOSE u \in found : TRUE
    IN  IF access # 0 THEN Response(access, "task", d)
        ELSE IF found = {} THEN Response(404, "Task material usage not found", d)
        ELSE Response(200, "", [d EXCEPT !.txns   = {t \in @ : t.material_item_id # usage.material_item_id},
                                         !.usages = @ \ {usage}])

(* Mutant: the usage is deleted and its ledger row is left behind.         *)
delete_usage_only(d, actor, task_id, usage_id) ==
    LET access == get_task_or_403(task_id, actor)
        found  == find_usage(d, task_id, usage_id)
    IN  IF access # 0 THEN Response(access, "task", d)
        ELSE IF found = {} THEN Response(404, "Task material usage not found", d)
        ELSE Response(200, "", [d EXCEPT !.usages = @ \ found])

(* delete_task_material_usage: DELETE /tasks/<task_id>/usages/<usage_id>.  *)
delete_task_material_usage(d, actor, task_id, usage_id) ==
    LET access == get_task_or_403(task_id, actor)
        found  == find_usage(d, task_id, usage_id)
        usage  == CHOOSE u \in found : TRUE
        linked == stock_txn(d, usage.id)
        txn    == CHOOSE t \in linked : TRUE
    IN  IF access # 0 THEN Response(access, "task", d)
        ELSE IF found = {} THEN Response(404, "Task material usage not found", d)
        ELSE Response(200, "", [d EXCEPT !.txns   = IF linked = {} THEN @ ELSE @ \ {txn},
                                         !.usages = @ \ {usage}])

----------------------------------------------------------------------------
(* Monthly reporting engine.                                               *)

(* _parse_month(value, default_today=True): a blank month is today's.      *)
parse_month_or_today(value, today) ==
    IF value.t = "blank" THEN parse_month(Num(today \div 100)) ELSE parse_month(value)

(* Mutant: the report query without its txn_date < month_end filter.       *)
report_txns_unfiltered(d, month_end_dt) == d.txns

(* The ledger rows monthly_material_report loads: txn_date < month_end.    *)
report_txns(d, month_end_dt) == {t \in d.txns : t.txn_date < month_end_dt}

(* Mutant: the accumulation counting every loaded row as the month's       *)
(* activity, the lower bound month_start <= txn_date left out.             *)
monthly_material_row_no_month_start(d, material_id, month_start_dt, month_end_dt) ==
    LET rows      == {t \in report_txns(d, month_end_dt) : t.material_item_id = material_id}
        before    == {t \in rows : t.txn_date < month_start_dt}
        purchases == {t \in rows : t.txn_type = "purchase"}
        uses      == {t \in rows : t.txn_type = "task_use"}
        abs_uses  == {[t EXCEPT !.qty_delta = Abs(@), !.amount_delta = Abs(@)] : t \in uses}
    IN  [opening_qty     |-> round_qty(SumQty(before)),
         opening_amount  |-> round_money(SumAmount(before)),
         purchased_qty   |-> round_qty(SumQty(purchases)),
         purchase_amount |-> round_money(SumAmount(purchases)),
         used_qty        |-> round_qty(SumQty(abs_uses)),
         used_amount     |-> round_money(SumAmount(abs_uses)),
         closing_qty     |-> round_qty(SumQty(rows)),
         closing_amount  |-> round_money(SumAmount(rows)),
         average_cost    |-> IF above_epsilon(SumQty(rows)) THEN round_unit_cost(SumAmount(rows), SumQty(rows))
                             ELSE d.items[material_id].reference_cost]

(* The per-material accumulation of monthly_material_report over the       *)
(* loaded rows, and the row it reports.                                    *)
monthly_material_row(d, material_id, month_start_dt, month_end_dt) ==
    LET rows      == {t \in report_txns(d, month_end_dt) : t.material_item_id = material_id}
        before    == {t \in rows : t.txn_date < month_start_dt}
        within    == {t \in rows : month_start_dt <= t.txn_date /\ t.txn_date < month_end_dt}
        purchases == {t \in within : t.txn_type = "purchase"}
        uses      == {t \in within : t.txn_type = "task_use"}
        abs_uses  == {[t EXCEPT !.qty_delta = Abs(@), !.amount_delta = Abs(@)] : t \in uses}
        close_qty == SumQty(rows)
        close_amt == SumAmount(rows)
    IN  [opening_qty     |-> round_qty(SumQty(before)),
         opening_amount  |-> round_money(SumAmount(before)),
         purchased_qty   |-> round_qty(SumQty(purchases)),
         purchase_amount |-> round_money(SumAmount(purchases)),
         used_qty        |-> round_qty(SumQty(abs_uses)),
         used_amount     |-> round_money(SumAmount(abs_uses)),
         closing_qty     |-> round_qty(close_qty),
         closing_amount  |-> round_money(close_amt),
         average_cost    |-> IF above_epsilon(close_qty) THEN round_unit_cost(close_amt, close_qty)
                             ELSE d.items[material_id].reference_cost]

(* The purchase batches monthly_material_report loads for a month: the     *)
(* statement month is the month asked for, or the purchase date lies in    *)
(* it.                                                                     *)
report_purchase_batches(d, month) ==
    {b \in d.batches : \/ b.statement_month = month.text
                       \/ (b.purchase_date >= month.start /\ b.purchase_date < month.end)}

(* The supplier a batch is reported under.                                 *)
report_supplier(batch) ==
    IF batch.supplier_name = "" THEN "unspecified" ELSE batch.supplier_name

RECURSIVE SumBatchTotals(_, _)
SumBatchTotals(d, S) == IF S = {} THEN 0
                        ELSE LET b == CHOOSE y \in S : TRUE
                             IN  total_amount(d, b.id) + SumBatchTotals(d, S \ {b})

(* The purchase-batches table of the report (its rows, which the code      *)
(* orders by purchase date and id).                                        *)
purchase_batches_payload(d, purchase_batches) ==
    {[id              |-> b.id,
      supplier_name   |-> report_supplier(b),
      purchase_date   |-> b.purchase_date,
      statement_month |-> b.statement_month,
      total_amount    |-> total_amount(d, b.id),
      item_count      |-> Cardinality(batch_items(d, b.id))] : b \in purchase_batches}

(* Mutant: a supplier's total is that of one of its batches, not their sum. *)
supplier_rows_one_batch_total(d, purchase_batches) ==
    [s \in {report_supplier(b) : b \in purchase_batches} |->
        LET of_supplier == {b \in purchase_batches : report_supplier(b) = s}
        IN  [supplier_name |-> s,
             batch_count   |-> Cardinality(of_supplier),
             total_amount  |-> round_money(total_amount(d, (CHOOSE b \in of_supplier : TRUE).id))]]

(* The supplier rollup of the report: per supplier the number of batches   *)
(* and their total amount.                                                 *)
supplier_rows(d, purchase_batches) ==
    [s \in {report_supplier(b) : b \in purchase_batches} |->
        LET of_supplier == {b \in purchase_batches : report_supplier(b) = s}
        IN  [supplier_name |-> s,
             batch_count   |-> Cardinality(of_supplier),
             total_amount  |-> round_money(SumBatchTotals(d, of_supplier))]]

(* The sum of one column over the per-material rows.                       *)
RECURSIVE SumColumn(_, _, _)
SumColumn(rows, S, column) ==
    IF S = {} THEN 0
    ELSE LET m == CHOOSE y \in S : TRUE
         IN  rows[m][column] + SumColumn(rows, S \ {m}, column)

(* The summary block of the report.                                        *)
report_summary(month_text, per_material_rows, suppliers, batches_payload) ==
    [month                 |-> month_text,
     purchase_total_amount |-> round_money(SumColumn(per_material_rows, DOMAIN per_material_rows, "purchase_amount")),
     usage_total_amount    |-> round_money(SumColumn(per_material_rows, DOMAIN per_material_rows, "used_amount")),
     opening_stock_amount  |-> round_money(SumColumn(per_material_rows, DOMAIN per_material_rows, "opening_amount")),
     closing_stock_amount  |-> round_money(SumColumn(per_material_rows, DOMAIN per_material_rows, "closing_amount")),
     material_item_count   |-> Cardinality(DOMAIN per_material_rows),
     supplier_count        |-> Cardinality(DOMAIN suppliers),
     purchase_batch_count  |-> Cardinality(batches_payload)]

(* monthly_material_report: GET /reports/monthly?month=YYYY-MM.            *)
monthly_material_report(d, month_raw, today) ==
    LET month == parse_month_or_today(month_raw, today)
        purchase_batches == report_purchase_batches(d, month)
        per_material_rows == [m \in DOMAIN d.items |->
                                monthly_material_row(d, m, to_txn_datetime(month.start, time_min),
                                                     to_txn_datetime(month.end, time_min))]
        suppliers == supplier_rows(d, purchase_batches)
        batches_payload == purchase_batches_payload(d, purchase_batches)
    IN  IF month.err # "" THEN [status |-> 400, month |-> None, summary |-> << >>, materials |-> << >>,
                                suppliers |-> << >>, purchase_batches |-> {}]
        ELSE [status    |-> 200,
              month     |-> month.text,
              summary   |-> report_summary(month.text, per_material_rows, suppliers, batches_payload),
              materials |-> per_material_rows,
              suppliers |-> suppliers,
              purchase_batches |-> batches_payload]

----------------------------------------------------------------------------
(* Requests.                                                               *)

(* The catalog holds materials 1 and 2; material 3 does not exist.  A spec *)
(* of "" is the NULL spec.                                                 *)
InitialItems ==
    (1 :> [name |-> "cement", spec |-> "", unit |-> "bag", reference_cost |-> Cost(3), is_active |-> TRUE]) @@
    (2 :> [name |-> "sand", spec |-> "", unit |-> "bag", reference_cost |-> Cost(8), is_active |-> TRUE])

(* date.today() of the requests.                                           *)
Todays == {20241215}

Admin == [role |-> "admin", user_id |-> 1]

Worker == [role |-> "worker", user_id |-> 2]

Item(material, quantity, unit_cost) ==
    [material_item_id |-> material, quantity |-> quantity, unit_cost |-> unit_cost]

A5 == Item(Num(1), Num(Units(10)), Num(Cost(5)))

A7 == Item(Num(1), Num(Units(10)), Num(Cost(7)))

B20 == Item(Num(2), Num(Units(2)), Num(Cost(20)))

(* A purchase at unit cost 0.                                              *)
AFree == Item(Num(1), Num(Units(2)), Num(0))

(* A purchase of 0.00004 units: a quantity off the 4-place grid.           *)
BFine == Item(Num(2), Num(4), Num(Cost(5)))

Purchase(supplier, purchase_date, statement_month, items) ==
    [supplier_name |-> supplier, purchase_date |-> purchase_date,
     statement_month |-> statement_month, items |-> items]

ValidPurchases ==
    { Purchase("S1", Num(20241130), Blank, <<A5, A7, B20>>),
      Purchase("S2", Blank, Num(202501), <<AFree, BFine>>),
      Purchase("S2", Num(20250102), Blank, <<BFine>>) }

InvalidPurchases ==
    { Purchase("", Num(20241201), Blank, <<A5>>),
      Purchase("S1", BadText, Blank, <<A5>>),
      Purchase("S1", Num(20241201), Num(202413), <<A5>>),
      Purchase("S1", Num(20241201), BadText, <<A5>>),
      Purchase("S1", Num(20241201), Blank, << >>),
      Purchase("S1", Num(20241201), Blank, <<A5, Item(Num(3), Num(Units(1)), Num(Cost(5)))>>),
      Purchase("S1", Num(20241201), Blank, <<A5, Item(BadText, Num(Units(1)), Num(Cost(5)))>>),
      Purchase("S1", Num(20241201), Blank, <<A5, Item(Num(1), BadText, Num(Cost(5)))>>),
      Purchase("S1", Num(20241201), Blank, <<A5, Item(Num(1), Blank, Num(Cost(5)))>>),
      Purchase("S1", Num(20241201), Blank, <<A5, Item(Num(1), Num(0), Num(Cost(5)))>>),
      Purchase("S1", Num(20241201), Blank, <<A5, Item(Num(1), Num(-Units(1)), Num(Cost(5)))>>),
      Purchase("S1", Num(20241201), Blank, <<A5, Item(Num(1), Num(Units(1)), BadText)>>),
      Purchase("S1", Num(20241201), Blank, <<A5, Item(Num(1), Num(Units(1)), Num(-Cost(1)))>>),
      Purchase("S1", Num(20241201), Blank, <<Item(Num(3), BadText, Num(Cost(5))), A5>>),
      Purchase("S1", Num(20241201), Blank, <<Item(Num(3), Num(Units(1)), Num(Cost(5))),
                                             Item(Num(1), Num(Units(1)), Num(-Cost(1)))>>) }

PurchaseRequests == ValidPurchases \cup InvalidPurchases

UsageData(material, used_qty, used_date, unit_cost_snapshot) ==
    [material_item_id |-> material, used_qty |-> used_qty,
     used_date |-> used_date, unit_cost_snapshot |-> unit_cost_snapshot]

(* Who asks for which task: the worker is assigned to task 1 only, task 3  *)
(* does not exist.  Usages are created on task 1.                          *)
Access(actor, task_id) == [actor |-> actor, task_id |-> task_id]

CreateAccess == {Access(Worker, 1), Access(Worker, 2), Access(Admin, 3)}

EditAccess == CreateAccess \cup {Access(Admin, 2)}

UsageCreateRequests ==
    { UsageData(m, Num(Units(5)), Blank, c) : m \in {Num(1), Num(2)}, c \in {Blank, Num(Cost(6))} }
    \cup { UsageData(Num(3), Num(Units(5)), Blank, Blank),
           UsageData(Blank, Num(Units(5)), Blank, Blank),
           UsageData(Num(1), Num(0), Blank, Blank),
           UsageData(Num(1), BadText, Blank, Blank),
           UsageData(Num(1), Num(Units(5)), BadText, Blank),
           UsageData(Num(1), Num(Units(5)), Blank, BadText),
           UsageData(Num(1), Num(Units(5)), Blank, Num(-Cost(1))) }

UsageUpdateRequests ==
    { UsageData(Absent, Absent, Absent, Absent),
      UsageData(Num(2), Absent, Absent, Absent),
      UsageData(Absent, Absent, Num(20250102), Absent),
      UsageData(Absent, Absent, Absent, Blank),
      UsageData(Absent, Num(Units(30)), Absent, Num(Cost(6))),
      UsageData(Num(3), Absent, Absent, Absent),
      UsageData(Num(2), Num(0), Absent, Absent),
      UsageData(Num(2), Absent, BadText, Absent),
      UsageData(Absent, Absent, Absent, BadText) }

----------------------------------------------------------------------------
(* The state machine.  db is the committed database, last the operation    *)
(* and status of the latest response, writes the number of requests that   *)
(* have changed the database so far.                                       *)

EmptyDb == [items          |-> InitialItems,
            batches        |-> {},
            purchase_items |-> {},
            usages         |-> {},
            txns           |-> {},
            seq            |-> [batch |-> 0, purchase_item |-> 0, usage |-> 0, txn |-> 0]]

Init == /\ db = EmptyDb
        /\ last = [op |-> "", status |-> 0]
        /\ writes = 0
        /\ sess = << >>

Respond(op, r) ==
    /\ writes < MaxWrites
    /\ db' = r.db
    /\ last' = [op |-> op, status |-> r.status]
    /\ writes' = IF r.status \in {200, 201} THEN writes + 1 ELSE writes
    /\ UNCHANGED sess

CreatePurchaseBatch ==
    \E data \in PurchaseRequests, today \in Todays :
        /\ Respond("create_purchase_batch", create_purchase_batch(db, data, today))

CreateTaskMaterialUsage ==
    \E a \in CreateAccess, data \in UsageCreateRequests, today \in Todays :
        /\ Respond("create_task_material_usage", create_task_material_usage(db, a.actor, a.task_id, data, today))

UpdateTaskMaterialUsage ==
    \E a \in EditAccess, usage_id \in 1..MaxWrites, data \in UsageUpdateRequests :
        /\ Respond("update_task_material_usage", update_task_material_usage(db, a.actor, a.task_id, usage_id, data))

DeleteTaskMaterialUsage ==
    \E a \in EditAccess, usage_id \in 1..MaxWrites :
        Respond("delete_task_material_usage", delete_task_material_usage(db, a.actor, a.task_id, usage_id))

Next == \/ CreatePurchaseBatch
        \/ CreateTaskMaterialUsage
        \/ UpdateTaskMaterialUsage
        \/ DeleteTaskMaterialUsage

Spec == Init /\ [][Next]_vars

----------------------------------------------------------------------------
(* Properties.  The handlers are operators, so a property of a request is  *)
(* stated at every reachable database state for every request of the pool. *)

IdsOf(S) == {x.id : x \in S}

(* The usage's ledger row: exactly one, and it mirrors the usage.          *)
UsageLedgerRowOk(d, u) ==
    LET linked == {t \in d.txns : t.task_material_usage_id = u.id}
    IN  /\ Cardinality(linked) = 1
        /\ \A t \in linked :
              /\ t.txn_type = "task_use"
              /\ t.material_item_id = u.material_item_id
              /\ t.task_id = u.task_id
              /\ t.qty_delta = -u.used_qty
              /\ t.amount_delta = -u.total_cost
              /\ t.txn_date = u.used_date * 100 + 18
              /\ t.purchase_item_id = None

(* An update that succeeds keeps the ledger's row ids, and every usage     *)
(* still has its one row.                                                  *)
UpdateInPlace(d, a, usage_id, data) ==
    LET r == update_task_material_usage(d, a.actor, a.task_id, usage_id, data)
    IN  r.status = 200 =>
          /\ IdsOf(r.db.txns) = IdsOf(d.txns)
          /\ Cardinality(r.db.txns) = Cardinality(d.txns)
          /\ r.db.seq.txn = d.seq.txn
          /\ \A u \in r.db.usages : UsageLedgerRowOk(r.db, u)

(* C1: every usage has exactly one ledger row, linked by                   *)
(* task_material_usage_id, of type task_use, with the usage's material and *)
(* task, qty_delta = -used_qty, amount_delta = -total_cost and txn_date =  *)
(* used_date 18:00; an update, also a repeated one and one that changes    *)
(* the material or the date, rewrites that row in place and adds none.     *)
C1_UsageHasOneLedgerRow ==
    /\ \A u \in db.usages : UsageLedgerRowOk(db, u)
    /\ \A a \in EditAccess, usage_id \in IdsOf(db.usages), data \in UsageUpdateRequests :
          /\ UpdateInPlace(db, a, usage_id, data)
          /\ LET r == update_task_material_usage(db, a.actor, a.task_id, usage_id, data)
             IN  r.status = 200 => UpdateInPlace(r.db, a, usage_id, data)

(* C1 witness: an update has moved a usage to January 2025 (no creation    *)
(* gives that date) and the usage has its one row.                         *)
C1_Witness ==
    /\ last = [op |-> "update_task_material_usage", status |-> 200]
    /\ \E u \in db.usages : u.used_date = 20250102 /\ UsageLedgerRowOk(db, u)

(* The purchase item's ledger row: exactly one, and it mirrors the item.   *)
PurchaseLedgerRowOk(d, p) ==
    LET linked == {t \in d.txns : t.purchase_item_id = p.id}
    IN  /\ Cardinality(linked) = 1
        /\ p.amount = round_amount(p.quantity, p.unit_cost)
        /\ \A t \in linked :
              /\ t.txn_type = "purchase"
              /\ t.material_item_id = p.material_item_id
              /\ t.qty_delta = p.quantity /\ t.qty_delta > 0
              /\ t.amount_delta = p.amount
              /\ t.task_material_usage_id = None

(* What a batch of N items that is accepted adds.                          *)
BatchAddsItsRows(d, data, today) ==
    LET r       == create_purchase_batch(d, data, today)
        rows    == r.db.txns \ d.txns
        items   == r.db.purchase_items \ d.purchase_items
        batches == r.db.batches \ d.batches
    IN  r.status = 201 =>
          /\ d.txns \subseteq r.db.txns
          /\ Cardinality(rows) = Len(data.items)
          /\ Cardinality(items) = Len(data.items)
          /\ Cardinality(batches) = 1
          /\ \A p \in items : PurchaseLedgerRowOk(r.db, p)
          /\ \A t \in rows : t.purchase_item_id \in IdsOf(items)
          /\ \A b \in batches : SumAmount(rows) = total_amount(r.db, b.id)

(* The batch of the round-trip example: (A, 10, 5), (B, 2, 20).            *)
ExampleBatch ==
    Purchase("S1", Num(20241201), Blank,
             <<Item(Num(1), Num(Units(10)), Num(Cost(5))), Item(Num(2), Num(Units(2)), Num(Cost(20)))>>)

(* C2: an accepted batch of N items adds N ledger rows, one per purchase   *)
(* item, of type purchase with qty_delta = quantity, amount_delta = amount *)
(* = round(quantity * unit_cost, 2) and the item's material; their         *)
(* amounts sum to the batch total (the example gives 50.00 + 40.00 =       *)
(* 90.00); and every purchase item of the database has its one row.       *)
C2_PurchaseItemsHaveOneLedgerRow ==
    /\ \A p \in db.purchase_items : PurchaseLedgerRowOk(db, p)
    /\ \A b \in db.batches :
          SumAmount({t \in db.txns : t.purchase_item_id \in IdsOf(batch_items(db, b.id))})
              = total_amount(db, b.id)
    /\ \A data \in PurchaseRequests \cup {ExampleBatch}, today \in Todays : BatchAddsItsRows(db, data, today)
    /\ LET r == create_purchase_batch(db, ExampleBatch, 20241215)
       IN  /\ r.status = 201
           /\ {t.amount_delta : t \in r.db.txns \ db.txns} = {Money(50), Money(40)}
           /\ total_amount(r.db, r.db.seq.batch) = Money(90)

(* C2 witness: a batch of three items has been created and has three rows. *)
C2_Witness ==
    /\ last = [op |-> "create_purchase_batch", status |-> 201]
    /\ \E b \in db.batches :
          /\ Cardinality(batch_items(db, b.id)) = 3
          /\ Cardinality({t \in db.txns : t.purchase_item_id \in IdsOf(batch_items(db, b.id))}) = 3

(* The as_of parameters a reader passes to the stock summary: none, and    *)
(* days before, on and after the days that carry ledger rows.              *)
AsOfInputs == {Blank, Num(20241129), Num(20241130), Num(20241214), Num(20241215), Num(20250101), Num(20250102)}

(* The ledger rows of a material dated at or before the end of a day.      *)
RowsUpTo(d, m, raw) ==
    {t \in d.txns : /\ t.material_item_id = m
                    /\ (raw.t = "num" => t.txn_date <= raw.v * 100 + 23)}

(* The claim as stated: the reported figures are the sums themselves.      *)
SnapshotIsExactSum(d, raw) ==
    LET r == stock_summary(d, raw)
    IN  /\ r.status = 200
        /\ \A m \in DOMAIN d.items :
              /\ r.rows[m].qty_on_hand = SumQty(RowsUpTo(d, m, raw))
              /\ r.rows[m].stock_amount = SumAmount(RowsUpTo(d, m, raw))

(* What the summary reports: the quantity sum rounded to 4 decimals, the   *)
(* amount sum (already in whole cents) as it is.                           *)
SnapshotIsRoundedSum(d, raw) ==
    LET r == stock_summary(d, raw)
    IN  /\ r.status = 200
        /\ \A m \in DOMAIN d.items :
              /\ r.rows[m].qty_on_hand = round_qty(SumQty(RowsUpTo(d, m, raw)))
              /\ r.rows[m].stock_amount = SumAmount(RowsUpTo(d, m, raw))
              /\ r.rows[m].last_txn_at = MaxTxnDate(RowsUpTo(d, m, raw))

(* C3 as stated: for every material and every as-of instant T the          *)
(* snapshot's qty_on_hand and stock_amount equal the sums of qty_delta and *)
(* amount_delta over exactly the material's ledger rows with txn_date <= T *)
(* (all of its rows without as-of).  Refuted by a purchase quantity finer  *)
(* than 4 decimals, which the ledger stores as given.                      *)
C3_SnapshotEqualsLedgerSum ==
    \A raw \in AsOfInputs : SnapshotIsExactSum(db, raw)

(* C3 amended: after any sequence of purchase and usage operations the     *)
(* snapshot's stock_amount equals the sum of amount_delta, and its         *)
(* qty_on_hand equals the sum of qty_delta rounded to 4 decimals, over     *)
(* exactly the material's ledger rows with txn_date <= T (all rows without *)
(* as-of); it is the exact sum whenever that sum has at most 4 decimals.   *)
C3_SnapshotIsRoundedLedgerSum ==
    \A raw \in AsOfInputs :
       /\ SnapshotIsRoundedSum(db, raw)
       /\ (\A m \in DOMAIN db.items : SumQty(RowsUpTo(db, m, raw)) % (QtyRes \div Pow10(QtyPlaces)) = 0)
             => SnapshotIsExactSum(db, raw)

(* C3 witness: a material has a purchase row before and a usage row after  *)
(* an as-of day, so the as-of snapshot and the unfiltered one differ.      *)
C3_Witness ==
    \E m \in DOMAIN db.items :
       /\ \E t \in db.txns : t.material_item_id = m /\ t.txn_type = "purchase" /\ t.txn_date <= 2024113023
       /\ \E t \in db.txns : t.material_item_id = m /\ t.txn_type = "task_use" /\ t.txn_date > 2024113023
       /\ stock_summary(db, Num(20241130)).rows[m].qty_on_hand # stock_summary(db, Blank).rows[m].qty_on_hand

(* The month parameters a reader passes to the monthly report; a blank one *)
(* is the current month.                                                   *)
MonthInputs == {Blank, Num(202411), Num(202412), Num(202501)}

(* First instant of a month YYYYMM and of the month after it.              *)
MonthStart(ym) == ym * 10000 + 100

MonthEnd(ym) == IF ym % 100 = 12 THEN (ym + 89) * 10000 + 100 ELSE (ym + 1) * 10000 + 100

(* The month a report parameter names.                                     *)
MonthOf(month, today) == IF month.t = "num" THEN month.v ELSE today \div 100

(* One step of the 4-decimal quantity grid.                                *)
QtyStep == QtyRes \div Pow10(QtyPlaces)

(* closing_amount = opening_amount + purchase_amount - used_amount.        *)
AmountsBalance(row) ==
    row.closing_amount = row.opening_amount + row.purchase_amount - row.used_amount

(* closing_qty = opening_qty + purchased_qty - used_qty.                   *)
QtyBalances(row) ==
    row.closing_qty = row.opening_qty + row.purchased_qty - row.used_qty

(* C4 as stated: for every month and material the report's closing         *)
(* quantity is opening + purchased - used, and likewise for the amounts.   *)
(* Refuted for the quantities: each figure is rounded to 4 decimals on its *)
(* own, and purchase quantities are stored as given.                       *)
C4_MonthlyReportBalances ==
    \A month \in MonthInputs, today \in Todays :
       LET r == monthly_material_report(db, month, today)
       IN  /\ r.status = 200
           /\ \A m \in DOMAIN db.items : QtyBalances(r.materials[m]) /\ AmountsBalance(r.materials[m])

(* C4 amended: in every reachable ledger state, for every month and        *)
(* material, closing_amount = opening_amount + purchase_amount -           *)
(* used_amount exactly; closing_qty differs from opening_qty +             *)
(* purchased_qty - used_qty by at most 0.0001, and equals it when every    *)
(* purchase quantity of the material has at most 4 decimals.               *)
C4_MonthlyReportBalancesRounded ==
    \A month \in MonthInputs, today \in Todays :
       LET r == monthly_material_report(db, month, today)
       IN  /\ r.status = 200
           /\ \A m \in DOMAIN db.items :
                 LET row == r.materials[m]
                 IN  /\ AmountsBalance(row)
                     /\ Abs(row.closing_qty - (row.opening_qty + row.purchased_qty - row.used_qty)) <= QtyStep
                     /\ (\A t \in db.txns : t.material_item_id = m => t.qty_delta % QtyStep = 0)
                           => QtyBalances(row)
                     /\ row.opening_qty = round_qty(SumQty({t \in db.txns :
                           t.material_item_id = m /\ t.txn_date < MonthStart(MonthOf(month, today))}))
                     /\ row.closing_qty = round_qty(SumQty({t \in db.txns :
                           t.material_item_id = m /\ t.txn_date < MonthEnd(MonthOf(month, today))}))

(* C4 witness: the December 2024 report of a material has an opening       *)
(* stock, a purchase and a usage.                                          *)
C4_Witness ==
    LET r == monthly_material_report(db, Num(202412), 20241215)
    IN  \E m \in DOMAIN db.items :
           /\ r.materials[m].opening_qty > 0
           /\ r.materials[m].purchased_qty > 0
           /\ r.materials[m].used_qty > 0
           /\ r.materials[m].closing_qty > 0

(* The snapshot of one material (zero where it has no ledger row).         *)
SnapshotOf(d, m, as_of) ==
    LET map == material_stock_snapshot_map(d, as_of, {m})
    IN  IF m \in DOMAIN map
        THEN [qty_on_hand |-> map[m].qty_on_hand, stock_amount |-> map[m].stock_amount]
        ELSE [qty_on_hand |-> 0, stock_amount |-> 0]

(* The snapshots of one material: of the whole ledger, and as of the end   *)
(* of a day before and of the day of the usages.                           *)
SnapshotsOf(d, m) ==
    [as_of \in {None, to_txn_datetime(20241130, time_max), to_txn_datetime(20241215, time_max)} |->
        SnapshotOf(d, m, as_of)]

(* A delete that succeeds removes the usage and its one ledger row and     *)
(* nothing else, and touches no other material's snapshot.                 *)
DeleteRemovesOneRow(d, a, usage_id) ==
    LET r == delete_task_material_usage(d, a.actor, a.task_id, usage_id)
        u == CHOOSE u \in d.usages : u.id = usage_id
    IN  IF r.status = 200
        THEN /\ \E x \in d.usages : x.id = usage_id
             /\ r.db.usages = d.usages \ {u}
             /\ r.db.txns \subseteq d.txns
             /\ d.txns \ r.db.txns = {t \in d.txns : t.task_material_usage_id = usage_id}
             /\ Cardinality(d.txns \ r.db.txns) = 1
             /\ \A t \in r.db.txns : t.task_material_usage_id # usage_id
             /\ r.db.purchase_items = d.purchase_items /\ r.db.batches = d.batches /\ r.db.items = d.items
             /\ \A m \in DOMAIN d.items \ {u.material_item_id} : SnapshotsOf(r.db, m) = SnapshotsOf(d, m)
        ELSE r.db = d

(* Creating a usage and deleting it, with nothing or with operations that  *)
(* leave its material alone in between (a purchase of the other material,  *)
(* an update of the usage's own date), gives back the material's snapshot  *)
(* of before the creation.                                                 *)
CreateThenDeleteReverts(d, a, data, today) ==
    \A c \in {create_task_material_usage(d, a.actor, a.task_id, data, today)} :
       c.status = 201 =>
          LET id    == c.db.seq.usage
              m     == data.material_item_id.v
              other == Purchase("S3", Num(20241201), Blank, <<Item(Num(3 - m), Num(Units(1)), Num(Cost(2)))>>)
              later == [material_item_id |-> Absent, used_qty |-> Num(Units(1)),
                        used_date |-> Num(20241201), unit_cost_snapshot |-> Absent]
          IN  \A before \in {SnapshotsOf(d, m)},
                 d0 \in {delete_task_material_usage(c.db, a.actor, a.task_id, id)},
                 p \in {create_purchase_batch(c.db, other, today)} :
                 \A up \in {update_task_material_usage(p.db, a.actor, a.task_id, id, later)} :
                    \A d1 \in {delete_task_material_usage(up.db, a.actor, a.task_id, id)} :
                       /\ d0.status = 200 /\ p.status = 201 /\ up.status = 200 /\ d1.status = 200
                       /\ d0.db.txns = d.txns /\ d0.db.usages = d.usages
                       /\ SnapshotsOf(d0.db, m) = before
                       /\ SnapshotsOf(d1.db, m) = before
                       /\ SnapshotsOf(c.db, m) # before

(* C5: deleting a usage removes the usage and exactly its one ledger row   *)
(* and no other ledger row; afterwards the snapshot of its material is the *)
(* one of immediately before the usage was created (no other operation on  *)
(* that material in between), and every other material's snapshot is       *)
(* unchanged.                                                              *)
C5_DeleteRemovesUsageAndItsRow ==
    /\ \A a \in EditAccess, usage_id \in 1..(MaxWrites + 1) : DeleteRemovesOneRow(db, a, usage_id)
    /\ \A a \in CreateAccess, data \in UsageCreateRequests, today \in Todays :
          CreateThenDeleteReverts(db, a, data, today)

(* C5 witness: a usage has been deleted from a ledger that keeps the rows  *)
(* of a purchase and no row of a usage.                                    *)
C5_Witness ==
    /\ last = [op |-> "delete_task_material_usage", status |-> 200]
    /\ db.seq.usage > Cardinality(db.usages)
    /\ \E t \in db.txns : t.txn_type = "purchase"
    /\ \A t \in db.txns : t.task_material_usage_id \in IdsOf(db.usages) \cup {None}

(* C7: a create_purchase_batch request that fails validation (missing      *)
(* supplier, bad date or statement month, empty items, a non-numeric or    *)
(* out-of-range quantity or unit cost on any item, an unknown material on  *)
(* any item) is answered 400 and persists no batch, no purchase item and   *)
(* no ledger row and changes no reference_cost, even when earlier items of *)
(* the request were valid.                                                 *)
C7_RejectedBatchPersistsNothing ==
    \A today \in Todays :
       /\ \A data \in InvalidPurchases :
             LET r == create_purchase_batch(db, data, today)
             IN  /\ r.status = 400
                 /\ r.db.batches = db.batches
                 /\ r.db.purchase_items = db.purchase_items
                 /\ r.db.txns = db.txns
                 /\ r.db.items = db.items
                 /\ r.db = db
       /\ \A data \in PurchaseRequests :
             LET r == create_purchase_batch(db, data, today)
             IN  r.status # 201 => r.db = db

(* C7 witness: a batch has been rejected by a database that holds purchase *)
(* items of an earlier batch and a usage.                                  *)
C7_Witness ==
    /\ last = [op |-> "create_purchase_batch", status |-> 400]
    /\ db.purchase_items # {}
    /\ db.usages # {}

(* All ledger rows of a material.                                          *)
RowsOf(d, m) == {t \in d.txns : t.material_item_id = m}

(* The weighted-average cost over a set of ledger rows as the              *)
(* specification defines it: value / quantity (to 4 decimals) when the     *)
(* quantity is greater than epsilon, the reference cost otherwise.         *)
SpecifiedAverage(d, m, rows) ==
    IF SumQty(rows) >= 1 THEN round_unit_cost(SumAmount(rows), SumQty(rows))
    ELSE d.items[m].reference_cost

(* The usage a create request without a unit-cost override has added.      *)
CreatedWithoutOverride(d, a, m, today) ==
    LET r == create_task_material_usage(d, a.actor, a.task_id, UsageData(Num(m), Num(Units(1)), Blank, Blank), today)
    IN  r.db.usages \ d.usages

(* C8 as stated: a usage created without a unit-cost override captures     *)
(* the material's current average cost: stock_amount / qty_on_hand when    *)
(* qty_on_hand is greater than epsilon, the reference_cost exactly when    *)
(* qty_on_hand is approximately zero.  The code returns the reference_cost *)
(* whenever the computed average is not positive, also with stock on hand. *)
C8_UsageCapturesAverageCost ==
    \A a \in CreateAccess, m \in DOMAIN db.items, today \in Todays :
       /\ SumQty(RowsOf(db, m)) >= 0 => current_average_cost(db, m) = SpecifiedAverage(db, m, RowsOf(db, m))
       /\ \A u \in CreatedWithoutOverride(db, a, m, today) :
             SumQty(RowsOf(db, m)) >= 0 => u.unit_cost_snapshot = SpecifiedAverage(db, m, RowsOf(db, m))

(* C9 as stated: the average cost the stock summary (as of T) and the      *)
(* monthly report (at month close) give for a material is stock value /    *)
(* quantity when the quantity is greater than epsilon and the material's   *)
(* reference_cost in every other case, a zero or negative quantity         *)
(* included.  The code tests abs(quantity) > epsilon, so a negative        *)
(* quantity is divided through, and the summary alone replaces an average  *)
(* of 0 by the reference_cost.                                             *)
C9_ReportedAverageCost ==
    /\ \A raw \in AsOfInputs, m \in DOMAIN db.items :
          stock_summary(db, raw).rows[m].average_cost = SpecifiedAverage(db, m, RowsUpTo(db, m, raw))
    /\ \A month \in MonthInputs, today \in Todays, m \in DOMAIN db.items :
          monthly_material_report(db, month, today).materials[m].average_cost
             = SpecifiedAverage(db, m, {t \in RowsOf(db, m) : t.txn_date < MonthEnd(MonthOf(month, today))})

(* The stock of a material consists of two purchases and nothing else.     *)
TwoPurchasesFromZero(d, m) ==
    /\ Cardinality(RowsOf(d, m)) = 2
    /\ \A t \in RowsOf(d, m) : t.txn_type = "purchase"

(* Quantities of a usage that follows the two purchases.                   *)
UsedQuantities == {Units(1), Units(4), Units(5)}

(* The claim for one material, one usage quantity u <= q1 + q2: the        *)
(* average is (q1*c1 + q2*c2) / (q1 + q2); the usage captures it, lowers   *)
(* the quantity by u and the amount by u x average (to the cent), and the  *)
(* average stays where both figures are exact.                             *)
UsageAtAverage(d, a, m, u, today) ==
    LET rows   == RowsOf(d, m)
        qty    == SumQty(rows)
        amount == SumAmount(rows)
        avg    == round_unit_cost(amount, qty)
        r      == create_task_material_usage(d, a.actor, a.task_id, UsageData(Num(m), Num(u), Blank, Blank), today)
        before == stock_summary(d, Blank).rows[m]
        after  == stock_summary(r.db, Blank).rows[m]
    IN  (TwoPurchasesFromZero(d, m) /\ u <= qty /\ qty % QtyStep = 0 /\ get_task_or_403(a.task_id, a.actor) = 0) =>
          /\ r.status = 201
          /\ before.qty_on_hand = qty /\ before.stock_amount = amount
          /\ \A x \in r.db.usages \ d.usages : x.unit_cost_snapshot = avg
          /\ after.qty_on_hand = qty - u
          /\ after.stock_amount = amount - round_amount(u, avg)
          /\ (u < qty /\ MulDivMod(amount, (QtyRes * CostRes) \div MoneyRes, qty)[2] = 0
                      /\ MulDivMod(u, avg, (QtyRes * CostRes) \div MoneyRes)[2] = 0)
                => after.average_cost = avg

(* C10 as stated: from zero stock, purchases (q1 at c1) and (q2 at c2)     *)
(* give the average (q1*c1 + q2*c2) / (q1 + q2); a usage of u <= q1 + q2   *)
(* without a cost override captures that average, lowers qty_on_hand by u  *)
(* and stock_amount by u x average and leaves the average unchanged        *)
(* (10 at 5 then 10 at 7 gives 6.00; consuming 5 leaves 15 units worth     *)
(* 90.00).  Two purchases at unit cost 0 refute it: the usage captures the *)
(* reference cost, not the average 0.                                      *)
C10_UsageAtWeightedAverage ==
    \A a \in CreateAccess, m \in DOMAIN db.items, u \in UsedQuantities, today \in Todays :
       UsageAtAverage(db, a, m, u, today)

(* The example of C10 on the code: 10 at 5 and 10 at 7 average 6.00, and   *)
(* consuming 5 leaves 15 units worth 90.00 at the same average.            *)
C10_ExampleHolds ==
    LET p == create_purchase_batch(db, Purchase("S1", Num(20241201), Blank, <<A5, A7>>), 20241215)
        r == create_task_material_usage(p.db, Worker, 1, UsageData(Num(1), Num(Units(5)), Blank, Blank), 20241215)
        s == stock_summary(r.db, Blank).rows[1]
    IN  RowsOf(db, 1) = {} =>
          /\ stock_summary(p.db, Blank).rows[1].average_cost = Cost(6)
          /\ \A x \in r.db.usages \ p.db.usages : x.unit_cost_snapshot = Cost(6) /\ x.total_cost = Money(30)
          /\ s.qty_on_hand = Units(15) /\ s.stock_amount = Money(90) /\ s.average_cost = Cost(6)

----------------------------------------------------------------------------
(* Concurrent requests.  Each request runs in a database session of its    *)
(* own: the rows it adds, changes and deletes stay in its open transaction *)
(* (flushed or not) until db.session.commit() applies them together; a     *)
(* failure before the commit rolls the transaction back.  Primary keys     *)
(* come from the tables' counters, which no rollback gives back.  Readers  *)
(* issue their queries against the committed tables, one query at a time.  *)

Sessions == {"w1", "w2"}

Tables == {"batches", "purchase_items", "usages", "txns"}

Rows(b, p, u, t) == [batches |-> b, purchase_items |-> p, usages |-> u, txns |-> t]

NoRows == Rows({}, {}, {}, {})

JoinRows(x, y) == [T \in Tables |-> x[T] \cup y[T]]

(* The requests of the concurrent writers: a batch of two items, a batch   *)
(* with a bad second item, a usage, its update and its removal.            *)
ConcRequests ==
    { [op |-> "create_purchase_batch", a |-> Access(Admin, 1), usage_id |-> None,
       data |-> Purchase("S1", Num(20241201), Blank, <<A5, B20>>)],
      [op |-> "create_purchase_batch", a |-> Access(Admin, 1), usage_id |-> None,
       data |-> Purchase("S1", Num(20241201), Blank, <<A5, Item(Num(1), Num(0), Num(Cost(5)))>>)],
      [op |-> "create_task_material_usage", a |-> Access(Worker, 1), usage_id |-> None,
       data |-> UsageData(Num(1), Num(Units(5)), Blank, Num(Cost(6)))],
      [op |-> "update_task_material_usage", a |-> Access(Worker, 1), usage_id |-> 1,
       data |-> UsageData(Num(2), Num(Units(30)), Absent, Num(Cost(6)))],
      [op |-> "delete_task_material_usage", a |-> Access(Worker, 1), usage_id |-> 1] }

(* The handler of a request, run on the tables the session reads.          *)
handle(d, q, today) ==
    CASE q.op = "create_purchase_batch" -> create_purchase_batch(d, q.data, today)
      [] q.op = "create_task_material_usage" ->
            create_task_material_usage(d, q.a.actor, q.a.task_id, q.data, today)
      [] q.op = "update_task_material_usage" ->
            update_task_material_usage(d, q.a.actor, q.a.task_id, q.usage_id, q.data)
      [] q.op = "delete_task_material_usage" ->
            delete_task_material_usage(d, q.a.actor, q.a.task_id, q.usage_id)

(* What a handler's transaction holds when it reaches its commit: the rows *)
(* it inserts or rewrites, the ids it deletes, the ids it rewrites or      *)
(* deletes (they must still exist at the commit), the reference costs it   *)
(* sets.                                                                   *)
transaction(d, r) ==
    LET add  == [T \in Tables |-> r.db[T] \ d[T]]
        gone == [T \in Tables |-> IdsOf(d[T]) \ IdsOf(r.db[T])]
    IN  [add  |-> add,
         gone |-> gone,
         need |-> [T \in Tables |-> gone[T] \cup (IdsOf(d[T]) \cap IdsOf(add[T]))],
         ref  |-> [m \in {x \in DOMAIN d.items : r.db.items[x] # d.items[x]} |-> r.db.items[m]]]

(* The rows each db.session.flush() of a handler sends, in order.          *)
(* create_purchase_batch flushes the batch, then each purchase item (and   *)
(* with it the ledger row added for the item before);                      *)
(* create_task_material_usage flushes the usage; the ledger row added last *)
(* goes out with the commit.  Update and delete do not flush.              *)
session_flushes(op, add) ==
    LET n       == Cardinality(add.purchase_items)
        first   == CHOOSE i \in IdsOf(add.purchase_items) : \A j \in IdsOf(add.purchase_items) : i <= j
        item(i) == {p \in add.purchase_items : p.id = first + i - 1}
        txn(i)  == {t \in add.txns : t.purchase_item_id \in IdsOf(item(i))}
    IN  IF op = "create_purchase_batch"
        THEN [k \in 1..(n + 1) |->
                IF k = 1 THEN Rows(add.batches, {}, {}, {})
                ELSE Rows({}, item(k - 1), {}, IF k = 2 THEN {} ELSE txn(k - 2))]
        ELSE IF op = "create_task_material_usage" THEN <<Rows({}, {}, add.usages, {})>>
        ELSE << >>

(* Mutant: a session without a transaction, every flush is committed.      *)
flush_autocommit(d, rows) ==
    [d EXCEPT !.batches = @ \cup rows.batches, !.purchase_items = @ \cup rows.purchase_items,
              !.usages = @ \cup rows.usages, !.txns = @ \cup rows.txns]

(* db.session.flush(): the statements run inside the open transaction; the *)
(* committed tables are as before.                                         *)
flush(d, rows) == d

(* db.session.commit(): the transaction's rows replace or join the         *)
(* committed ones and its deletions leave them, in one step.               *)
commit(d, w) ==
    LET table(T) == {x \in d[T] : x.id \notin w.gone[T] \cup IdsOf(w.add[T])} \cup w.add[T]
    IN  [d EXCEPT !.batches = table("batches"), !.purchase_items = table("purchase_items"),
                  !.usages = table("usages"), !.txns = table("txns"),
                  !.items = [m \in DOMAIN @ |-> IF m \in DOMAIN w.ref THEN w.ref[m] ELSE @[m]]]

(* The rows a commit rewrites or deletes are still there (otherwise the    *)
(* UPDATE or DELETE matches no row and the commit fails).                  *)
rows_present(d, w) == \A T \in Tables : w.need[T] \subseteq IdsOf(d[T])

IdleSession == [pc |-> "idle", op |-> "", status |-> 0, todo |-> << >>, flushed |-> NoRows,
                add |-> NoRows, gone |-> [T \in Tables |-> {}], need |-> [T \in Tables |-> {}],
                ref |-> << >>]

InitConc == /\ db = EmptyDb
            /\ last = [op |-> "", status |-> 0]
            /\ writes = 0
            /\ sess = [writers |-> [s \in Sessions |-> IdleSession], reader |-> "idle"]

(* A request that passes its checks opens a transaction; the ids of its    *)
(* new rows are taken from the counters.                                   *)
BeginWrite(s) ==
    /\ sess.writers[s].pc = "idle"
    /\ writes < MaxWrites
    /\ \E q \in ConcRequests, today \in Todays :
       \E r \in {handle(db, q, today)} : \E w \in {transaction(db, r)} :
           /\ r.status \in {200, 201}
           /\ sess' = [sess EXCEPT !.writers[s] =
                         [pc |-> "open", op |-> q.op, status |-> r.status,
                          todo |-> session_flushes(q.op, w.add), flushed |-> NoRows,
                          add |-> w.add, gone |-> w.gone, need |-> w.need, ref |-> w.ref]]
           /\ db' = [db EXCEPT !.seq = r.db.seq]
           /\ writes' = writes + 1
           /\ UNCHANGED last

(* A request that fails its checks is answered before anything is added.   *)
RejectWrite(s) ==
    /\ sess.writers[s].pc = "idle"
    /\ \E q \in ConcRequests, today \in Todays :
       \E r \in {handle(db, q, today)} :
           /\ r.status \notin {200, 201}
           /\ last' = [op |-> q.op, status |-> r.status]
           /\ UNCHANGED <<db, writes, sess>>

Flush(s) ==
    LET w == sess.writers[s]
    IN  /\ w.pc = "open"
        /\ w.todo # << >>
        /\ db' = flush(db, Head(w.todo))
        /\ sess' = [sess EXCEPT !.writers[s].todo = Tail(w.todo),
                                !.writers[s].flushed = JoinRows(w.flushed, Head(w.todo))]
        /\ UNCHANGED <<last, writes>>

Commit(s) ==
    LET w == sess.writers[s]
    IN  /\ w.pc = "open"
        /\ w.todo = << >>
        /\ rows_present(db, w)
        /\ db' = commit(db, w)
        /\ last' = [op |-> w.op, status |-> w.status]
        /\ sess' = [sess EXCEPT !.writers[s] = IdleSession]
        /\ UNCHANGED writes

(* The commit finds a row it rewrites or deletes gone: the error rolls the *)
(* transaction back.                                                       *)
CommitFails(s) ==
    LET w == sess.writers[s]
    IN  /\ w.pc = "open"
        /\ w.todo = << >>
        /\ ~rows_present(db, w)
        /\ last' = [op |-> w.op, status |-> 500]
        /\ sess' = [sess EXCEPT !.writers[s] = IdleSession]
        /\ UNCHANGED <<db, writes>>

(* A failure between the first statement and the commit (the connection    *)
(* drops, a statement raises): the transaction is rolled back.             *)
Rollback(s) ==
    LET w == sess.writers[s]
    IN  /\ w.pc = "open"
        /\ w.flushed # NoRows
        /\ last' = [op |-> w.op, status |-> 500]
        /\ sess' = [sess EXCEPT !.writers[s] = IdleSession]
        /\ UNCHANGED <<db, writes>>

(* GET /stock/summary: one aggregate query over the committed ledger.      *)
ReadStockSummary ==
    \E raw \in {Blank, Num(20241201)} :
       /\ sess.reader = "idle"
       /\ last' = [op |-> "stock_summary", status |-> stock_summary(db, raw).status]
       /\ UNCHANGED <<db, writes, sess>>

(* GET /reports/monthly: the ledger query ...                              *)
ReadReportLedger ==
    /\ sess.reader = "idle"
    /\ monthly_material_report(db, Num(202412), 20241215).status = 200
    /\ sess' = [sess EXCEPT !.reader = "ledger_read"]
    /\ UNCHANGED <<db, last, writes>>

(* ... and, as a later query, the purchase batches of the month.           *)
ReadReportBatches ==
    /\ sess.reader = "ledger_read"
    /\ sess' = [sess EXCEPT !.reader = "idle"]
    /\ last' = [op |-> "monthly_material_report", status |-> 200]
    /\ UNCHANGED <<db, writes>>

NextConc == \/ \E s \in Sessions : BeginWrite(s)
            \/ \E s \in Sessions : RejectWrite(s)
            \/ \E s \in Sessions : Flush(s)
            \/ \E s \in Sessions : Commit(s)
            \/ \E s \in Sessions : CommitFails(s)
            \/ \E s \in Sessions : Rollback(s)
            \/ ReadStockSummary
            \/ ReadReportLedger
            \/ ReadReportBatches

SpecConc == InitConc /\ [][NextConc]_vars

(* A database in which every purchase item and every usage has its ledger  *)
(* row and every ledger row has its purchase item or usage.                *)
Whole(d) ==
    /\ \A p \in d.purchase_items :
          /\ PurchaseLedgerRowOk(d, p)
          /\ \E b \in d.batches : b.id = p.batch_id
    /\ \A u \in d.usages : UsageLedgerRowOk(d, u)
    /\ \A t \in d.txns :
          /\ t.task_material_usage_id # None => t.task_material_usage_id \in IdsOf(d.usages)
          /\ t.purchase_item_id # None => t.purchase_item_id \in IdsOf(d.purchase_items)
          /\ t.task_material_usage_id # None \/ t.purchase_item_id # None

----------------------------------------------------------------------------
(* Frozen cost snapshots, and the ledger rows an operation may touch.      *)

(* The cost figures of a usage and of its ledger row.                      *)
CostFigures(d, usage_id) ==
    [usage |-> {<<u.unit_cost_snapshot, u.total_cost>> : u \in {x \in d.usages : x.id = usage_id}},
     txn   |-> {<<t.unit_cost, t.amount_delta>> : t \in {x \in d.txns : x.task_material_usage_id = usage_id}}]

(* The response r to a request that is no update or delete of the usages   *)
(* in kept leaves their cost figures as they are in d.                     *)
KeepsCostFigures(d, r, kept) ==
    \A u \in kept : CostFigures(r.db, u.id) = CostFigures(d, u.id)

(* C11: once a usage is created, its unit_cost_snapshot and total_cost and *)
(* the unit_cost and amount_delta of its ledger row are changed neither by *)
(* a later purchase batch nor by the creation, update or deletion of any   *)
(* other usage, also when these change the material's average cost.        *)
C11_CostSnapshotIsFrozen ==
    /\ db.usages # {} =>
          /\ \A data \in PurchaseRequests, today \in Todays :
                \A r \in {create_purchase_batch(db, data, today)} : KeepsCostFigures(db, r, db.usages)
          /\ \A a \in CreateAccess, data \in UsageCreateRequests, today \in Todays :
                \A r \in {create_task_material_usage(db, a.actor, a.task_id, data, today)} :
                   KeepsCostFigures(db, r, db.usages)
    /\ \A usage_id \in IdsOf(db.usages) :
       \A others \in {{u \in db.usages : u.id # usage_id}} :
          others # {} =>
             \A a \in EditAccess :
                /\ \A data \in UsageUpdateRequests :
                      \A r \in {update_task_material_usage(db, a.actor, a.task_id, usage_id, data)} :
                         KeepsCostFigures(db, r, others)
                /\ \A r \in {delete_task_material_usage(db, a.actor, a.task_id, usage_id)} :
                      KeepsCostFigures(db, r, others)

(* C11 witness: a purchase has moved the average cost of a material away   *)
(* from the cost a usage of that material captured before it.              *)
C11_Witness ==
    /\ last = [op |-> "create_purchase_batch", status |-> 201]
    /\ \E u \in db.usages :
          /\ \E t \in db.txns : t.txn_type = "purchase" /\ t.material_item_id = u.material_item_id
          /\ current_average_cost(db, u.material_item_id) # u.unit_cost_snapshot
          /\ CostFigures(db, u.id).txn = {<<u.unit_cost_snapshot, -u.total_cost>>}

(* The purchase rows of a ledger.                                          *)
PurchaseRows(d) == {t \in d.txns : t.txn_type = "purchase"}

(* One step leaves every purchase row as it is; a row that changes or      *)
(* disappears is a task_use row, the step is a successful update or delete *)
(* of a usage, and the usage owning the row is the one changed or deleted. *)
LedgerStep ==
    /\ PurchaseRows(db) \subseteq PurchaseRows(db')
    /\ Cardinality(PurchaseRows(db')) >= Cardinality(PurchaseRows(db))
    /\ \A t \in db.txns \ db'.txns :
          /\ t.txn_type = "task_use"
          /\ last'.status = 200
          /\ last'.op \in {"update_task_material_usage", "delete_task_material_usage"}
          /\ \E u \in db.usages \ db'.usages : u.id = t.task_material_usage_id
          /\ last'.op = "delete_task_material_usage" => \A x \in db'.txns : x.id # t.id
          /\ last'.op = "update_task_material_usage" =>
                \E x \in db'.txns : x.id = t.id /\ x.task_material_usage_id = t.task_material_usage_id
          /\ Cardinality(db.txns \ db'.txns) = 1

(* C12: a committed purchase ledger row is never modified or deleted by    *)
(* any operation; the only rows that change or disappear are task_use rows *)
(* and only through the update or the delete of the usage that owns them;  *)
(* the number of purchase rows never decreases.                            *)
C12_PurchaseRowsAreImmutable == [][LedgerStep]_vars

(* C12 witness: a usage has been deleted after a purchase, and             *)
(* the ledger holds the purchase rows only.                                *)
C12_Witness ==
    /\ last = [op |-> "delete_task_material_usage", status |-> 200]
    /\ db.usages = {}
    /\ db.txns # {}
    /\ db.txns = PurchaseRows(db)
    /\ Cardinality(db.txns) = Cardinality(db.purchase_items)

----------------------------------------------------------------------------
(* Two actors update the same usage at the same time.  Each request is a   *)
(* session that runs its statements against the committed tables one by    *)
(* one: the usage query of update_task_material_usage, then the load of    *)
(* usage.stock_txn in _upsert_usage_stock_txn, then the commit, whose      *)
(* UPDATE statements carry the columns the session has changed on the rows *)
(* as it loaded them.  A commit that comes after another session's commit  *)
(* either goes through or is refused by the engine (lock or serialisation  *)
(* failure), which rolls it back.                                          *)

RaceActors == [a1 |-> Worker, a2 |-> Admin]

(* The edits of the two actors: each changes one or two fields.            *)
RaceUpdates ==
    { UsageData(Absent, Num(Units(30)), Absent, Absent),
      UsageData(Absent, Absent, Absent, Num(Cost(7))),
      UsageData(Num(2), Absent, Absent, Absent),
      UsageData(Absent, Absent, Num(20250102), Absent),
      UsageData(Absent, Num(Units(2)), Absent, Num(Cost(9))) }

(* The database before the race: a purchase and one usage on task 1.       *)
RaceDb ==
    create_task_material_usage(
        create_purchase_batch(EmptyDb, Purchase("S1", Num(20241130), Blank, <<A5, A7, B20>>), 20241215).db,
        Worker, 1, UsageData(Num(1), Num(Units(5)), Blank, Num(Cost(6))), 20241215).db

RaceUsageId == RaceDb.seq.usage

(* The UPDATE of a row: the columns whose value the session changed from   *)
(* the loaded one are written, the others are left as they are committed.  *)
update_changed_columns(committed, loaded, changed) ==
    [f \in DOMAIN committed |-> IF changed[f] # loaded[f] THEN changed[f] ELSE committed[f]]

RaceIdle == [pc |-> "start", usage |-> {}, edited |-> {}, txn |-> {}, seen |-> 0]

InitRace == /\ db = RaceDb
            /\ last = [op |-> "", status |-> 0]
            /\ writes = 0
            /\ sess = [a \in DOMAIN RaceActors |-> RaceIdle]

(* The usage query and the handler's edits of the loaded usage.            *)
RaceLoadUsage(a) ==
    /\ sess[a].pc = "start"
    /\ \E data \in RaceUpdates :
       \E r \in {update_task_material_usage(db, RaceActors[a], 1, RaceUsageId, data)} :
          /\ r.status = 200
          /\ sess' = [sess EXCEPT ![a] = [pc |-> "usage_loaded",
                                          usage  |-> find_usage(db, 1, RaceUsageId),
                                          edited |-> find_usage(r.db, 1, RaceUsageId),
                                          txn    |-> {},
                                          seen   |-> writes]]
    /\ UNCHANGED <<db, last, writes>>

(* txn = usage.stock_txn: the ledger row is read when the upsert asks for  *)
(* it.                                                                     *)
RaceLoadTxn(a) ==
    /\ sess[a].pc = "usage_loaded"
    /\ sess' = [sess EXCEPT ![a].pc = "txn_loaded", ![a].txn = stock_txn(db, RaceUsageId)]
    /\ UNCHANGED <<db, last, writes>>

(* db.session.commit(): the UPDATE of the usage and the UPDATE of its      *)
(* ledger row, with the values _upsert_usage_stock_txn assigned.           *)
RaceCommit(a) ==
    /\ sess[a].pc = "txn_loaded"
    /\ \E loaded \in sess[a].usage, edited \in sess[a].edited, txn \in sess[a].txn :
       \E cu \in find_usage(db, 1, RaceUsageId), ct \in {t \in db.txns : t.id = txn.id} :
          db' = [db EXCEPT !.usages = (@ \ {cu}) \cup {update_changed_columns(cu, loaded, edited)},
                           !.txns   = (@ \ {ct}) \cup
                                      {update_changed_columns(ct, txn, usage_txn_values(txn, edited))}]
    /\ last' = [op |-> "update_task_material_usage", status |-> 200]
    /\ writes' = writes + 1
    /\ sess' = [sess EXCEPT ![a].pc = "done"]

(* The engine refuses a commit that follows another session's commit.      *)
RaceCommitRefused(a) ==
    /\ sess[a].pc = "txn_loaded"
    /\ sess[a].seen # writes
    /\ last' = [op |-> "update_task_material_usage", status |-> 500]
    /\ sess' = [sess EXCEPT ![a].pc = "failed"]
    /\ UNCHANGED <<db, writes>>

NextRace == \/ \E a \in DOMAIN RaceActors : RaceLoadUsage(a)
            \/ \E a \in DOMAIN RaceActors : RaceLoadTxn(a)
            \/ \E a \in DOMAIN RaceActors : RaceCommit(a)
            \/ \E a \in DOMAIN RaceActors : RaceCommitRefused(a)

SpecRace == InitRace /\ [][NextRace]_vars

(* C13 as stated: under any interleaving of two concurrent updates of the  *)
(* same usage by two actors, after both have committed there is exactly    *)
(* one ledger row for the usage and its qty_delta and amount_delta are the *)
(* negated used_qty and total_cost of the committed usage.  Refuted: the   *)
(* second session writes the quantity of the usage as it loaded it over    *)
(* the ledger row the first session has committed.                         *)
C13_ConcurrentUpdatesAgree ==
    (\A a \in DOMAIN RaceActors : sess[a].pc = "done") =>
        \A u \in db.usages :
           /\ Cardinality(stock_txn(db, u.id)) = 1
           /\ \A t \in stock_txn(db, u.id) : t.qty_delta = -u.used_qty /\ t.amount_delta = -u.total_cost

(* What the race keeps: the usage has one ledger row, of its task.         *)
C13_OneRowPerUsage ==
    \A u \in db.usages :
       /\ Cardinality(stock_txn(db, u.id)) = 1
       /\ \A t \in stock_txn(db, u.id) : t.txn_type = "task_use" /\ t.task_id = u.task_id

----------------------------------------------------------------------------
(* The order of the checks of a purchase request.                          *)

UnknownMaterial(d, raw) ==
    raw.material_item_id.t = "num" /\ raw.material_item_id.v \notin DOMAIN d.items

InvalidNumber(raw) ==
    \/ parse_float(raw.quantity, 0).err # ""
    \/ parse_float(raw.unit_cost, 0).err # ""
    \/ parse_float(raw.quantity, 0).val <= 0

(* Requests that pass the supplier check and hold both an item of an       *)
(* unknown material and an item with an invalid quantity or unit cost.     *)
UnknownMaterialAndInvalidNumber(d) ==
    {data \in PurchaseRequests :
        /\ data.supplier_name # ""
        /\ \E i \in 1..Len(data.items) : UnknownMaterial(d, data.items[i])
        /\ \E i \in 1..Len(data.items) : InvalidNumber(data.items[i])}

(* C14 as stated: a purchase request whose items contain both an unknown   *)
(* material id and an invalid quantity or unit cost is rejected with the   *)
(* material-not-found error (the material check comes before the number    *)
(* checks).  Refuted: _normalize_purchase_items checks the numbers of      *)
(* every item before create_purchase_batch looks the materials up.         *)
C14_MaterialCheckedBeforeNumbers ==
    \A data \in UnknownMaterialAndInvalidNumber(db), today \in Todays :
       \A r \in {create_purchase_batch(db, data, today)} :
          r.status = 400 /\ r.msg = "Material item not found"

(* What the code does with these requests: it answers 400 with the error   *)
(* of the first item whose number is invalid, and stores nothing.          *)
C14_NumbersCheckedFirst ==
    \A data \in UnknownMaterialAndInvalidNumber(db), today \in Todays :
       \A r \in {create_purchase_batch(db, data, today)} :
          r.status = 400 /\ r.msg # "Material item not found" /\ r.db = db

----------------------------------------------------------------------------
(* The reference cost after a purchase.                                    *)

(* The positions of the items of a request that reference material m.      *)
ItemsOf(data, m) ==
    {i \in 1..Len(data.items) : data.items[i].material_item_id = Num(m)}

LastOf(S) == CHOOSE i \in S : \A j \in S : j <= i

(* After the accepted request, material m has the unit cost of the last    *)
(* item that references it, or its former reference cost if none does.     *)
ReferenceCostFollows(d, data, after, m, zero_too) ==
    IF ItemsOf(data, m) = {} THEN after.items[m].reference_cost = d.items[m].reference_cost
    ELSE LET unit_cost == parse_float(data.items[LastOf(ItemsOf(data, m))].unit_cost, 0).val
         IN  (zero_too \/ unit_cost # 0) => after.items[m].reference_cost = unit_cost

(* C15 as stated: after a successful create_purchase_batch the             *)
(* reference_cost of every material referenced by the batch equals the     *)
(* unit cost of the last item of the batch that references it, for every   *)
(* accepted unit cost, 0 included; the other materials keep theirs.        *)
(* Refuted: an item at unit cost 0 leaves the reference cost as it was.    *)
C15_ReferenceCostIsLastUnitCost ==
    \A data \in ValidPurchases, today \in Todays :
       \A r \in {create_purchase_batch(db, data, today)} :
          r.status = 201 =>
             \A m \in DOMAIN db.items : ReferenceCostFollows(db, data, r.db, m, TRUE)

(* What holds: the statement for the items whose unit cost is not 0.       *)
C15_ReferenceCostIsLastNonZeroUnitCost ==
    \A data \in ValidPurchases, today \in Todays :
       \A r \in {create_purchase_batch(db, data, today)} :
          r.status = 201 =>
             \A m \in DOMAIN db.items : ReferenceCostFollows(db, data, r.db, m, FALSE)

----------------------------------------------------------------------------
(* The month a purchase batch is reported in.                              *)

ReportMonths == {202411, 202412, 202501}

(* The months whose report lists the batch in its purchase-batches table,  *)
(* and those whose supplier rollup counts it.                              *)
MonthsListing(d, batch) ==
    {ym \in ReportMonths :
        \E row \in monthly_material_report(d, Num(ym), 20241215).purchase_batches : row.id = batch.id}

SupplierBatchCount(d, ym, supplier) ==
    LET suppliers == monthly_material_report(d, Num(ym), 20241215).suppliers
    IN  IF supplier \in DOMAIN suppliers THEN suppliers[supplier].batch_count ELSE 0

RECURSIVE SumOverMonths(_, _, _)
SumOverMonths(d, months, supplier) ==
    IF months = {} THEN 0
    ELSE LET ym == CHOOSE y \in months : TRUE
         IN  SupplierBatchCount(d, ym, supplier) + SumOverMonths(d, months \ {ym}, supplier)

(* C16 as stated: a purchase batch is in the purchase-batches table and    *)
(* the supplier rollup of the report of its statement month only, so over  *)
(* all months every batch is counted once in the supplier totals, also     *)
(* when its purchase date lies in another month.  Refuted: the report's    *)
(* query also takes the batches whose purchase date lies in the month.     *)
C16_BatchCountedInItsStatementMonthOnly ==
    /\ \A b \in db.batches : MonthsListing(db, b) = {b.statement_month}
    /\ \A s \in {b.supplier_name : b \in db.batches} :
          SumOverMonths(db, ReportMonths, s) = Cardinality({b \in db.batches : b.supplier_name = s})

(* What the code does: a batch is listed in the month of its statement     *)
(* month and in the month of its purchase date.                            *)
C16_BatchCountedByStatementMonthOrDate ==
    \A b \in db.batches :
       MonthsListing(db, b) = {b.statement_month, b.purchase_date \div 100} \cap ReportMonths

----------------------------------------------------------------------------
(* The material catalog.  A request holds the stripped texts of its        *)
(* fields; fields is the set of keys present in the body.                  *)

ItemData(fields, name, spec, reference_cost, is_active) ==
    [fields |-> fields, name |-> name, spec |-> spec, unit |-> "",
     reference_cost |-> reference_cost, is_active |-> is_active]

(* max(float(raw or 0), 0.0), rounded to 4 places.                         *)
item_reference_cost(raw) ==
    IF raw.t = "num" THEN [err |-> "", val |-> IF raw.v > 0 THEN raw.v ELSE 0]
    ELSE IF raw.t = "text" THEN [err |-> "reference_cost must be a number", val |-> 0]
    ELSE [err |-> "", val |-> 0]

(* The table's identity rule, (name, spec) unique, as the database         *)
(* enforces a unique constraint: rows with a NULL spec are not compared.   *)
material_item_unique(items) ==
    \A i, j \in DOMAIN items :
       (i # j /\ items[i].spec # "" /\ items[j].spec # "") =>
           <<items[i].name, items[i].spec>> # <<items[j].name, items[j].spec>>

(* create_material_item: POST /items.                                      *)
create_material_item(d, data) ==
    LET name == data.name
        spec == IF "spec" \in data.fields THEN data.spec ELSE ""
        unit == IF "unit" \in data.fields /\ data.unit # "" THEN data.unit ELSE "unit"
        cost == item_reference_cost(IF "reference_cost" \in data.fields THEN data.reference_cost ELSE Num(0))
        exists == {i \in DOMAIN d.items : d.items[i].name = name /\ d.items[i].spec = spec}
        id   == Cardinality(DOMAIN d.items) + 1
        row  == [name |-> name, spec |-> spec, unit |-> unit, reference_cost |-> cost.val,
                 is_active |-> IF "is_active" \in data.fields THEN data.is_active ELSE TRUE]
    IN  IF "name" \notin data.fields \/ name = "" THEN Response(400, "name is required", d)
        ELSE IF cost.err # "" THEN Response(400, cost.err, d)
        ELSE IF exists # {} THEN Response(409, "Material item already exists", d)
        ELSE Response(201, "", [d EXCEPT !.items = @ @@ (id :> row)])

(* update_material_item: PUT /items/<item_id>.  The commit fails where it  *)
(* breaks the unique constraint.                                           *)
update_material_item(d, item_id, data) ==
    IF item_id \notin DOMAIN d.items THEN Response(404, "", d)
    ELSE LET item == d.items[item_id]
             cost == item_reference_cost(data.reference_cost)
             row  == [name |-> IF "name" \in data.fields /\ data.name # "" THEN data.name ELSE item.name,
                      spec |-> IF "spec" \in data.fields THEN data.spec ELSE item.spec,
                      unit |-> IF "unit" \in data.fields /\ data.unit # "" THEN data.unit ELSE item.unit,
                      reference_cost |-> IF "reference_cost" \in data.fields THEN cost.val
                                         ELSE item.reference_cost,
                      is_active |-> IF "is_active" \in data.fields THEN data.is_active ELSE item.is_active]
             d1   == [d EXCEPT !.items[item_id] = row]
         IN  IF "reference_cost" \in data.fields /\ cost.err # ""
                 THEN Response(400, cost.err, d)
             ELSE IF ~material_item_unique(d1.items) THEN Response(500, "", d)
             ELSE Response(200, "", d1)

ItemCreateRequests ==
    { ItemData({"name"}, "cement", "", Blank, TRUE),
      ItemData({"name", "spec"}, "cement", "40kg", Blank, TRUE),
      ItemData({"name", "spec", "reference_cost"}, "sand", "40kg", Num(Cost(4)), TRUE),
      ItemData({"spec"}, "", "40kg", Blank, TRUE),
      ItemData({"name", "reference_cost"}, "gravel", "", BadText, TRUE) }

ItemUpdateRequests ==
    { ItemData({"name"}, "cement", "", Blank, TRUE),
      ItemData({"name"}, "", "", Blank, TRUE),
      ItemData({"name", "spec"}, "sand", "40kg", Blank, TRUE),
      ItemData({"spec"}, "", "", Blank, TRUE),
      ItemData({"spec"}, "", "40kg", Blank, TRUE),
      ItemData({"name", "reference_cost"}, "sand", "", BadText, TRUE),
      ItemData({"reference_cost", "is_active"}, "", "", Num(Cost(4)), FALSE) }

ItemIds == {1, 2, 3, 9}

CreateMaterialItem ==
    \E data \in ItemCreateRequests :
    \E r \in {create_material_item(db, data)} :
       /\ r.status = 201 => writes < MaxWrites
       /\ db' = r.db
       /\ last' = [op |-> "create_material_item", status |-> r.status]
       /\ writes' = IF r.status = 201 THEN writes + 1 ELSE writes
       /\ UNCHANGED sess

UpdateMaterialItem ==
    \E item_id \in ItemIds, data \in ItemUpdateRequests :
    \E r \in {update_material_item(db, item_id, data)} :
       /\ r.db # db => writes < MaxWrites
       /\ db' = r.db
       /\ last' = [op |-> "update_material_item", status |-> r.status]
       /\ writes' = IF r.db # db THEN writes + 1 ELSE writes
       /\ UNCHANGED sess

NextCatalog == CreateMaterialItem \/ UpdateMaterialItem

SpecCatalog == Init /\ [][NextCatalog]_vars

(* C17 as stated: after any sequence of catalog creates and updates no two *)
(* MaterialItems share the same (name, spec) pair.  Refuted: an update     *)
(* renames an item into the pair of another item.                          *)
C17_NameSpecPairsAreUnique ==
    \A i, j \in DOMAIN db.items :
       i # j => <<db.items[i].name, db.items[i].spec>> # <<db.items[j].name, db.items[j].spec>>

(* What holds: a create with an existing pair is answered 409 and leaves   *)
(* the catalog as it is, and no create adds a pair that is held already.   *)
C17_CreateRejectsExistingPair ==
    \A data \in ItemCreateRequests :
       \A r \in {create_material_item(db, data)} :
          /\ (\E i \in DOMAIN db.items :
                 data.name # "" /\ db.items[i].name = data.name
                 /\ db.items[i].spec = (IF "spec" \in data.fields THEN data.spec ELSE ""))
                => (r.status \in {400, 409} /\ r.db = db)
          /\ r.status = 201 =>
                \A i \in DOMAIN db.items, j \in DOMAIN r.db.items \ DOMAIN db.items :
                   <<db.items[i].name, db.items[i].spec>> # <<r.db.items[j].name, r.db.items[j].spec>>

----------------------------------------------------------------------------
(* Usages are reached through a task the actor has access to.              *)

RECURSIVE SumTotalCost(_)
SumTotalCost(S) == IF S = {} THEN 0
                   ELSE LET u == CHOOSE y \in S : TRUE IN u.total_cost + SumTotalCost(S \ {u})

(* list_task_material_usages: GET /tasks/<task_id>/usages (the rows, which *)
(* the code orders by date and id).                                        *)
list_task_material_usages(d, actor, task_id) ==
    LET access == get_task_or_403(task_id, actor)
        rows   == {u \in d.usages : u.task_id = task_id}
    IN  IF access # 0 THEN [status |-> access, task_id |-> None, rows |-> {}, total_cost |-> 0]
        ELSE [status |-> 200, task_id |-> task_id, rows |-> rows,
              total_cost |-> round_money(SumTotalCost(rows))]

(* The actors: every role, with users who are and who are not on tasks 1   *)
(* and 2 (user 2 is an assignee of task 1, user 3 assigned it, user 4 is   *)
(* the one task 2 is assigned to).                                         *)
Actors ==
    {Admin, [role |-> "hq_staff", user_id |-> 5]}
    \cup { [role |-> r, user_id |-> u] : r \in {"worker", "site_supervisor", "guest"}, u \in {2, 3, 4, 6} }

(* Access as the rule states it.                                           *)
IsAssignedTo(task_id, user_id) ==
    Tasks[task_id].assigned_to_id = user_id \/ user_id \in Tasks[task_id].assignees

HasAccess(actor, task_id) ==
    \/ actor.role \in {"admin", "hq_staff"}
    \/ actor.role = "worker" /\ IsAssignedTo(task_id, actor.user_id)
    \/ actor.role = "site_supervisor"
       /\ (Tasks[task_id].assigned_by_id = actor.user_id \/ IsAssignedTo(task_id, actor.user_id))

(* The request data of the usage requests of an actor on a task.           *)
GatedCreates ==
    {UsageData(Num(1), Num(Units(5)), Blank, Blank), UsageData(Num(2), Num(Units(5)), Blank, Num(Cost(6)))}

GatedUpdate == UsageData(Absent, Num(Units(30)), Absent, Absent)

(* The answer r to a request on database d is 403 and nothing changed.     *)
Refused(d, r) == r.status = 403 /\ r.db = d

(* The answer r to a request through task task_id is no 403 and leaves the *)
(* usages and ledger rows of the other tasks as they are in d.             *)
KeepsOtherTasks(d, r, task_id) ==
    /\ r.status # 403
    /\ {u \in r.db.usages : u.task_id # task_id} = {u \in d.usages : u.task_id # task_id}
    /\ {t \in r.db.txns : t.task_id # task_id} = {t \in d.txns : t.task_id # task_id}

(* An actor without access gets 403 from every usage request and changes   *)
(* nothing.                                                                *)
DeniedWithoutAccess(d) ==
    \A actor \in Actors, task_id \in DOMAIN Tasks :
       ~HasAccess(actor, task_id) =>
          /\ \A l \in {list_task_material_usages(d, actor, task_id)} : l.status = 403 /\ l.rows = {}
          /\ \A data \in GatedCreates :
                \A r \in {create_task_material_usage(d, actor, task_id, data, 20241215)} : Refused(d, r)
          /\ \A usage_id \in IdsOf(d.usages) :
                /\ \A r \in {update_task_material_usage(d, actor, task_id, usage_id, GatedUpdate)} :
                      Refused(d, r)
                /\ \A r \in {delete_task_material_usage(d, actor, task_id, usage_id)} : Refused(d, r)

(* An actor with access is let in, sees the usages of the task only, and   *)
(* gets 404 and changes nothing for a usage of another task; whatever the  *)
(* request does, the usages and ledger rows of other tasks stay.           *)
OwnUsagesOnly(d) ==
    \A actor \in Actors, task_id \in DOMAIN Tasks :
       HasAccess(actor, task_id) =>
          /\ \A l \in {list_task_material_usages(d, actor, task_id)} :
                l.status = 200 /\ l.rows = {u \in d.usages : u.task_id = task_id}
          /\ \A data \in GatedCreates :
                \A r \in {create_task_material_usage(d, actor, task_id, data, 20241215)} :
                   KeepsOtherTasks(d, r, task_id)
          /\ \A u \in d.usages :
                /\ \A r \in {update_task_material_usage(d, actor, task_id, u.id, GatedUpdate)} :
                      /\ KeepsOtherTasks(d, r, task_id)
                      /\ u.task_id # task_id => (r.status = 404 /\ r.db = d)
                /\ \A r \in {delete_task_material_usage(d, actor, task_id, u.id)} :
                      /\ KeepsOtherTasks(d, r, task_id)
                      /\ u.task_id # task_id => (r.status = 404 /\ r.db = d)

(* The usage requests of every actor on every task, over a database that  *)
(* starts empty: task 3 does not exist.                                    *)
AccessTasks == {1, 2, 3}

ListUsagesAs ==
    \E actor \in Actors, task_id \in AccessTasks :
       /\ writes < MaxWrites
       /\ last' = [op |-> "list_task_material_usages",
                   status |-> list_task_material_usages(db, actor, task_id).status]
       /\ UNCHANGED <<db, writes, sess>>

CreateUsageAs ==
    \E actor \in Actors, task_id \in AccessTasks, data \in GatedCreates :
       Respond("create_task_material_usage",
               create_task_material_usage(db, actor, task_id, data, 20241215))

UpdateUsageAs ==
    \E actor \in Actors, task_id \in AccessTasks, usage_id \in 1..MaxWrites :
       Respond("update_task_material_usage",
               update_task_material_usage(db, actor, task_id, usage_id, GatedUpdate))

DeleteUsageAs ==
    \E actor \in Actors, task_id \in AccessTasks, usage_id \in 1..MaxWrites :
       Respond("delete_task_material_usage", delete_task_material_usage(db, actor, task_id, usage_id))

NextAccess == ListUsagesAs \/ CreateUsageAs \/ UpdateUsageAs \/ DeleteUsageAs

SpecAccess == Init /\ [][NextAccess]_vars

(* C18: an actor lists, creates, updates or deletes usages only through a  *)
(* task they have access to (admin and hq_staff every task, a worker the   *)
(* tasks they are assigned to, a site_supervisor the tasks they assigned   *)
(* or are assigned to) and only usages of that task: without access the    *)
(* answer is 403, for a usage of another task 404, and in both cases no    *)
(* usage and no ledger row changes.                                        *)
C18_UsagesGatedByTaskAccess == DeniedWithoutAccess(db) /\ OwnUsagesOnly(db)

(* C18 witness: with usages on task 1 and on task 2 in place, a delete has *)
(* just been refused with 403; the worker of task 1 is refused on task 2,  *)
(* and the usage of task 1 is not found through task 2.                    *)
C18_Witness ==
    /\ last = [op |-> "delete_task_material_usage", status |-> 403]
    /\ \E u \in db.usages, v \in db.usages :
          /\ u.task_id = 1 /\ v.task_id = 2
          /\ delete_task_material_usage(db, Worker, 2, v.id).status = 403
          /\ delete_task_material_usage(db, Admin, 2, u.id).status = 404
          /\ delete_task_material_usage(db, Worker, 1, u.id).status = 200

----------------------------------------------------------------------------
(* Roles of the endpoints.                                                 *)

ALL_ROLES == {"worker", "site_supervisor", "hq_staff", "admin"}

MANAGER_ROLES == {"site_supervisor", "hq_staff", "admin"}

ALWAYS_ALLOWED_ROLES == {"admin"}

(* role_required: 403 unless the role of the token is one of the given     *)
(* roles or admin; 0 lets the request through.                             *)
role_required(roles, user_role) ==
    IF user_role \notin (roles \cup ALWAYS_ALLOWED_ROLES) THEN 403 ELSE 0

(* The role_required decorator of each endpoint of the blueprint (the      *)
(* usage endpoints are gated by the task instead).                         *)
EndpointRoles ==
    [list_material_items     |-> ALL_ROLES,
     create_material_item    |-> MANAGER_ROLES,
     update_material_item    |-> MANAGER_ROLES,
     stock_summary           |-> ALL_ROLES,
     stock_transactions      |-> ALL_ROLES,
     list_purchase_batches   |-> MANAGER_ROLES,
     get_purchase_batch      |-> MANAGER_ROLES,
     create_purchase_batch   |-> MANAGER_ROLES,
     monthly_material_report |-> MANAGER_ROLES]

(* The rows of a query in the order txn_date desc, id desc.                *)
RECURSIVE newest_first(_)
newest_first(S) ==
    IF S = {} THEN << >>
    ELSE LET t == CHOOSE x \in S : \A y \in S : y.txn_date < x.txn_date
                                               \/ (y.txn_date = x.txn_date /\ y.id <= x.id)
         IN  <<t>> \o newest_first(S \ {t})

(* stock_transactions: GET /stock/transactions, the raw ledger rows.       *)
(* material_item_id and task_id are 0 when not given.                      *)
stock_transactions(d, user_role, month_raw, material_item_id, task_id, limit) ==
    LET month == parse_month(month_raw)
        rows  == {t \in d.txns :
                     /\ month_raw.t # "blank" =>
                           /\ t.txn_date >= to_txn_datetime(month.start, time_min)
                           /\ t.txn_date < to_txn_datetime(month.end, time_min)
                     /\ material_item_id # 0 => t.material_item_id = material_item_id
                     /\ task_id # 0 => t.task_id = task_id}
        n     == IF limit < 1 THEN 1 ELSE IF limit > 1000 THEN 1000 ELSE limit
        sorted == newest_first(rows)
    IN  IF role_required(EndpointRoles.stock_transactions, user_role) # 0
            THEN [status |-> 403, rows |-> << >>]
        ELSE IF month_raw.t # "blank" /\ month.err # "" THEN [status |-> 400, rows |-> << >>]
        ELSE [status |-> 200,
              rows   |-> IF Len(sorted) <= n THEN sorted ELSE SubSeq(sorted, 1, n)]

Roles == ALL_ROLES \cup {"guest"}

ManagerTier == {"site_supervisor", "hq_staff", "admin"}

(* C19 as stated: every endpoint other than the catalog listing and the    *)
(* stock summary (and the task-gated usage endpoints) answers 403 to an    *)
(* actor whose role is not manager-tier; in particular a worker cannot     *)
(* read the raw ledger through the stock-transactions listing.  Refuted:   *)
(* stock_transactions admits every role.                                   *)
C19_ManagerTierOnly ==
    /\ \A ep \in DOMAIN EndpointRoles \ {"list_material_items", "stock_summary"} :
          \A user_role \in Roles \ ManagerTier : role_required(EndpointRoles[ep], user_role) = 403
    /\ \A month \in {Blank, Num(202412)}, m \in {0, 1}, limit \in {1, 200} :
          stock_transactions(db, "worker", month, m, 0, limit).status = 403

(* What holds: the other endpoints are manager-tier, and the ledger        *)
(* listing hands a worker the rows of the ledger.                          *)
C19_ManagerTierExceptLedgerListing ==
    /\ \A ep \in DOMAIN EndpointRoles \ {"list_material_items", "stock_summary", "stock_transactions"} :
          \A user_role \in Roles :
             role_required(EndpointRoles[ep], user_role) = (IF user_role \in ManagerTier THEN 0 ELSE 403)
    /\ \A r \in {stock_transactions(db, "worker", Blank, 0, 0, 200)} :
          r.status = 200 /\ Len(r.rows) = Cardinality(db.txns)
          /\ \A i \in 1..Len(r.rows) : r.rows[i] \in db.txns
    /\ stock_transactions(db, "guest", Blank, 0, 0, 200).status = 403

----------------------------------------------------------------------------
(* A purchase and a usage of the same day.                                 *)

DayOf(txn) == txn.txn_date \div 100

DaysIn(ym) ==
    LET y == ym \div 100
        m == ym % 100
    IN  IF m \in {4, 6, 9, 11} THEN 30
        ELSE IF m # 2 THEN 31
        ELSE IF (y % 4 = 0 /\ y % 100 # 0) \/ y % 400 = 0 THEN 29 ELSE 28

(* The calendar day before day D (YYYYMMDD).                               *)
DayBefore(D) ==
    LET ym == D \div 100
        prev_ym == IF ym % 100 = 1 THEN ym - 89 ELSE ym - 1
    IN  IF D % 100 > 1 THEN D - 1 ELSE prev_ym * 100 + DaysIn(prev_ym)

(* The pairs of a purchase row and a usage row of one material and day.    *)
SameDayPairs(d) ==
    {<<p, u>> \in d.txns \X d.txns :
        /\ p.txn_type = "purchase" /\ u.txn_type = "task_use"
        /\ p.material_item_id = u.material_item_id
        /\ DayOf(p) = DayOf(u)}

(* The rows the stock summary of as_of = day sums up for a material.       *)
SummaryRows(d, day, m) == snapshot_rows(d, stock_summary(d, Num(day)).as_of, m)

(* C20: for a purchase and a usage of the same material on the same day D  *)
(* the purchase's ledger txn_date is D 12:00 and the usage's D 18:00, so   *)
(* the purchase comes strictly first; the stock summary with as_of = D     *)
(* includes both rows and the one with as_of = D-1 includes neither.       *)
C20_SameDayPurchaseBeforeUse ==
    \A pair \in SameDayPairs(db) :
       \A p \in {pair[1]}, u \in {pair[2]}, D \in {DayOf(pair[1])} :
       \A on_day \in {stock_summary(db, Num(D))}, day_before \in {stock_summary(db, Num(DayBefore(D)))} :
       \A rows_on_day \in {snapshot_rows(db, on_day.as_of, p.material_item_id)},
          rows_before \in {snapshot_rows(db, day_before.as_of, p.material_item_id)} :
          /\ p.txn_date = D * 100 + 12
          /\ u.txn_date = D * 100 + 18
          /\ p.txn_date < u.txn_date
          /\ on_day.status = 200 /\ day_before.status = 200
          /\ {p, u} \subseteq rows_on_day
          /\ {p, u} \cap rows_before = {}
          /\ on_day.rows[p.material_item_id].qty_on_hand = round_qty(SumQty(rows_on_day))
          /\ day_before.rows[p.material_item_id].qty_on_hand = round_qty(SumQty(rows_before))

(* C20 witness: a usage has been recorded on the day of a purchase of its  *)
(* material, with an earlier purchase of that material in the ledger too.  *)
C20_Witness ==
    /\ last = [op |-> "create_task_material_usage", status |-> 201]
    /\ \E pair \in SameDayPairs(db) :
          /\ DayOf(pair[1]) = 20241215
          /\ SummaryRows(db, 20241214, pair[1].material_item_id) # {}
          /\ SummaryRows(db, 20241214, pair[1].material_item_id)
                # SummaryRows(db, 20241215, pair[1].material_item_id)


----------------------------------------------------------------------------
(* The ledger as the reports read it: the histories of accepted writes.    *)
(* A report is a pure function of the committed state, so the reporting    *)
(* properties are stated over every state accepted writes can produce.     *)

LedgerPurchases ==
    ValidPurchases \cup {Purchase("S3", Num(20241105), Num(202411), <<B20>>)}

LedgerUsages ==
    { UsageData(Num(1), Num(Units(5)), Blank, Blank),
      UsageData(Num(2), Num(Units(5)), Num(20241105), Num(Cost(6))) }

LedgerUpdates ==
    { UsageData(Absent, Absent, Num(20250102), Absent),
      UsageData(Num(2), Num(Units(30)), Absent, Blank) }

Accepted(r) == r.status \in {200, 201}

AcceptPurchaseBatch ==
    \E data \in LedgerPurchases, today \in Todays :
        \E r \in {create_purchase_batch(db, data, today)} :
            /\ Accepted(r)
            /\ Respond("create_purchase_batch", r)

AcceptUsage ==
    \E data \in LedgerUsages, today \in Todays :
        \E r \in {create_task_material_usage(db, Worker, 1, data, today)} :
            /\ Accepted(r)
            /\ Respond("create_task_material_usage", r)

AcceptUsageUpdate ==
    \E usage_id \in 1..MaxWrites, data \in LedgerUpdates :
        \E r \in {update_task_material_usage(db, Worker, 1, usage_id, data)} :
            /\ Accepted(r)
            /\ Respond("update_task_material_usage", r)

AcceptUsageDelete ==
    \E usage_id \in 1..MaxWrites :
        \E r \in {delete_task_material_usage(db, Worker, 1, usage_id)} :
            /\ Accepted(r)
            /\ Respond("delete_task_material_usage", r)

NextLedger == \/ AcceptPurchaseBatch
              \/ AcceptUsage
              \/ AcceptUsageUpdate
              \/ AcceptUsageDelete

SpecLedger == Init /\ [][NextLedger]_vars

----------------------------------------------------------------------------
(* A month without activity for a material.                                *)

(* The material has no ledger row with txn_date in [month_start,           *)
(* month_end) of month ym.                                                 *)
QuietMonth(d, m, ym) ==
    \A t \in d.txns :
       t.material_item_id = m
          => ~(MonthStart(ym) <= t.txn_date /\ t.txn_date < MonthEnd(ym))

(* C21: for any month M and any material without a ledger row dated in M   *)
(* the monthly report gives opening_qty = closing_qty, opening_amount =    *)
(* closing_amount, and purchased and used quantities and amounts of zero,  *)
(* whatever happened in other months or to other materials.                *)
C21_QuietMonthCarriesOver ==
    \A month \in MonthInputs, today \in Todays :
       \A r \in {monthly_material_report(db, month, today)} :
          /\ r.status = 200
          /\ \A m \in DOMAIN db.items :
                QuietMonth(db, m, MonthOf(month, today)) =>
                   \A row \in {r.materials[m]} :
                      /\ row.opening_qty = row.closing_qty
                      /\ row.opening_amount = row.closing_amount
                      /\ row.purchased_qty = 0 /\ row.purchase_amount = 0
                      /\ row.used_qty = 0 /\ row.used_amount = 0

(* C21 witness: December 2024 is quiet for a material that has stock from  *)
(* November, while another material is used in December.                   *)
C21_Witness ==
    \E m \in DOMAIN db.items, other \in DOMAIN db.items :
       /\ QuietMonth(db, m, 202412)
       /\ ~QuietMonth(db, m, 202411)
       /\ ~QuietMonth(db, other, 202412)
       /\ monthly_material_report(db, Num(202412), 20241215).materials[m].opening_qty > 0
       /\ monthly_material_report(db, Num(202412), 20241215).materials[other].used_qty > 0


----------------------------------------------------------------------------
(* The usage routes over a stocked ledger: two purchases, usages recorded  *)
(* on task 1 by its worker with on-grid and off-grid quantities, and the   *)
(* update payloads of UsageUpdateRequests, valid and invalid.              *)

StockPurchases ==
    { Purchase("S1", Num(20241130), Blank, <<A5, A7, B20>>),
      Purchase("S2", Blank, Num(202501), <<AFree, BFine>>) }

(* 5 units at the average cost and at a quoted cost of 9; 0.00004 units,   *)
(* a quantity below the 4-place grid, at a cost of 1000; and a quantity    *)
(* of 0, which is refused.                                                 *)
StockUsages ==
    { UsageData(Num(1), Num(Units(5)), Blank, Blank),
      UsageData(Num(1), Num(Units(5)), Blank, Num(Cost(9))),
      UsageData(Num(2), Num(4), Blank, Num(Cost(1000))),
      UsageData(Num(1), Num(0), Blank, Blank) }

StockPurchase ==
    \E data \in StockPurchases, today \in Todays :
        /\ Respond("create_purchase_batch", create_purchase_batch(db, data, today))

RecordUsage ==
    \E data \in StockUsages, today \in Todays :
        /\ Respond("create_task_material_usage", create_task_material_usage(db, Worker, 1, data, today))

EditUsage ==
    \E usage_id \in 1..MaxWrites, data \in UsageUpdateRequests :
        /\ Respond("update_task_material_usage", update_task_material_usage(db, Worker, 1, usage_id, data))

RemoveUsage ==
    \E usage_id \in 1..MaxWrites :
        /\ Respond("delete_task_material_usage", delete_task_material_usage(db, Worker, 1, usage_id))

NextUsage == \/ StockPurchase
             \/ RecordUsage
             \/ EditUsage
             \/ RemoveUsage

SpecUsage == Init /\ [][NextUsage]_vars

----------------------------------------------------------------------------
(* The signs of the ledger rows.                                           *)

PurchaseSigns(t) == t.qty_delta > 0 /\ t.amount_delta >= 0

(* C22 as stated: in every reachable state a purchase row has qty_delta    *)
(* > 0 and amount_delta >= 0, a task_use row has qty_delta < 0 and         *)
(* amount_delta <= 0, and every stored usage has used_qty > 0 (after the   *)
(* 4-decimal rounding of the write) and unit_cost_snapshot >= 0.  Refuted: *)
(* the quantity is tested before it is rounded, and a quantity below half  *)
(* a grid step is stored as 0.                                             *)
C22_LedgerSignsMatchType ==
    /\ \A t \in db.txns :
          /\ t.txn_type = "purchase" => PurchaseSigns(t)
          /\ t.txn_type = "task_use" => t.qty_delta < 0 /\ t.amount_delta <= 0
    /\ \A u \in db.usages : u.used_qty > 0 /\ u.unit_cost_snapshot >= 0

(* What the code keeps: the signs are never reversed, a usage row may have *)
(* a quantity of 0.                                                        *)
C22_LedgerSignsNeverReversed ==
    /\ \A t \in db.txns :
          /\ t.txn_type = "purchase" => PurchaseSigns(t)
          /\ t.txn_type = "task_use" => t.qty_delta <= 0 /\ t.amount_delta <= 0
    /\ \A u \in db.usages : u.used_qty >= 0 /\ u.unit_cost_snapshot >= 0

----------------------------------------------------------------------------
(* The total cost of a usage.                                              *)

(* C23 as stated: in every reachable state each stored usage has           *)
(* total_cost = round(used_qty x unit_cost_snapshot, 2) of its stored      *)
(* used_qty and unit_cost_snapshot, after create and after update.         *)
(* Refuted for create, which multiplies the quantity as given, before its  *)
(* rounding to 4 decimals.                                                 *)
C23_TotalCostFromStoredFigures ==
    \A u \in db.usages : u.total_cost = round_amount(u.used_qty, u.unit_cost_snapshot)

(* What the code keeps: after an update the total is that of the stored    *)
(* figures, and the usage's ledger row always carries the usage's total.   *)
C23_TotalCostFromStoredFiguresAfterUpdate ==
    /\ \A u \in db.usages : \A t \in stock_txn(db, u.id) : t.amount_delta = -u.total_cost
    /\ (last = [op |-> "update_task_material_usage", status |-> 200]) =>
          \E u \in db.usages : u.total_cost = round_amount(u.used_qty, u.unit_cost_snapshot)


----------------------------------------------------------------------------
(* The unit-cost snapshot under updates.                                   *)

(* The update payloads tried on every usage: those of UsageUpdateRequests  *)
(* and two that move the usage to material 2, one without a                *)
(* unit_cost_snapshot and one with a blank one.                            *)
SnapshotEdits ==
    UsageUpdateRequests
    \cup { UsageData(Num(2), Num(Units(7)), Num(20250102), Absent),
           UsageData(Num(2), Absent, Absent, Blank) }

(* The usage of that id after the response.                                *)
UsageAfter(r, usage_id) == CHOOSE n \in r.db.usages : n.id = usage_id

(* C24: an accepted update whose payload has no unit_cost_snapshot leaves  *)
(* the usage's unit_cost_snapshot as it was, also when the material's      *)
(* average cost has changed since or the payload moves the usage to        *)
(* another material; an explicit value sets it, and an explicit blank sets *)
(* it to the current average cost of the usage's (new) material.           *)
C24_SnapshotKeptUnlessEdited ==
    \A u \in db.usages, data \in SnapshotEdits :
       \A r \in {update_task_material_usage(db, Worker, u.task_id, u.id, data)} :
          r.status = 200 =>
             \A n \in {UsageAfter(r, u.id)}, raw \in {data.unit_cost_snapshot} :
                /\ raw.t = "absent" => n.unit_cost_snapshot = u.unit_cost_snapshot
                /\ raw.t = "num"    => n.unit_cost_snapshot = raw.v
                /\ raw.t = "blank"  => n.unit_cost_snapshot = current_average_cost(db, n.material_item_id)

(* C24 witness: a usage recorded on material 1 at a quoted cost of 9 has   *)
(* been moved to material 2 by an update, and still carries 9, which is    *)
(* not the average cost of either material.                                *)
C24_Witness ==
    /\ last = [op |-> "update_task_material_usage", status |-> 200]
    /\ \E u \in db.usages :
          /\ u.material_item_id = 2
          /\ u.unit_cost_snapshot = Cost(9)
          /\ current_average_cost(db, 1) # Cost(9)
          /\ current_average_cost(db, 2) # Cost(9)

----------------------------------------------------------------------------
(* Refused updates.                                                        *)

(* Payloads that carry a valid new material and a field that is refused.   *)
RefusedEdits ==
    UsageUpdateRequests
    \cup { UsageData(Num(2), BadText, Absent, Absent),
           UsageData(Num(2), Num(Units(7)), Num(20250102), BadText),
           UsageData(Num(2), Num(Units(7)), Absent, Num(-Cost(1))) }

(* C25: when update_task_material_usage answers with a validation,         *)
(* not-found or access error, the committed state is the one before the    *)
(* request: the usage and its ledger row are unchanged, and a material     *)
(* assigned earlier in the request is not persisted.                       *)
C25_RefusedUpdatePersistsNothing ==
    \A a \in EditAccess, usage_id \in 1..MaxWrites, data \in RefusedEdits :
       \A r \in {update_task_material_usage(db, a.actor, a.task_id, usage_id, data)} :
          /\ r.status # 200 => r.db = db
          /\ r.status \in {200, 400, 403, 404}
          /\ (data \notin UsageUpdateRequests /\ a = Access(Worker, 1)) => r.status \in {400, 404}

(* C25 witness: an update has just been refused with 400 while a usage of  *)
(* material 1 is stored, for which a payload with material 2 and a         *)
(* quantity of 0 is refused too.                                           *)
C25_Witness ==
    /\ last = [op |-> "update_task_material_usage", status |-> 400]
    /\ \E u \in db.usages :
          /\ u.material_item_id = 1
          /\ stock_txn(db, u.id) # {}
          /\ update_task_material_usage(db, Worker, 1, u.id,
                                        UsageData(Num(2), Num(0), Absent, Absent)).status = 400


----------------------------------------------------------------------------
(* Usages beyond the quantity on hand.                                     *)

(* Usages of 5 and of 30 units of either material; no state of the model   *)
(* holds 30 units of a material.                                           *)
OverdrawUsages ==
    { UsageData(Num(m), Num(Units(q)), Blank, c) : m \in {1, 2}, q \in {5, 30}, c \in {Blank, Num(Cost(6))} }

OverdrawEdits ==
    { UsageData(Absent, Num(Units(30)), Absent, Absent),
      UsageData(Num(2), Num(Units(30)), Absent, Num(Cost(6))) }

(* The unrounded quantity on hand of a material.                           *)
OnHand(d, m) == SumQty(snapshot_rows(d, None, m))

(* C26: creating or updating a usage is accepted whatever the quantity on  *)
(* hand of the material: the usage is recorded with its ledger row and the *)
(* quantity on hand goes down by the used quantity, below zero when the    *)
(* usage exceeds it.  No operation refuses or corrects such a state.       *)
C26_UsageAcceptedWhateverTheStock ==
    /\ \A data \in OverdrawUsages, today \in Todays :
          \A r \in {create_task_material_usage(db, Worker, 1, data, today)} :
             /\ r.status = 201
             /\ \A m \in {data.material_item_id.v} :
                   /\ OnHand(r.db, m) = OnHand(db, m) - data.used_qty.v
                   /\ stock_summary(r.db, Blank).rows[m].qty_on_hand = round_qty(OnHand(r.db, m))
             /\ \E t \in stock_txn(r.db, db.seq.usage + 1) : t.qty_delta = -data.used_qty.v
    /\ \A u \in db.usages, data \in OverdrawEdits :
          \A r \in {update_task_material_usage(db, Worker, u.task_id, u.id, data)} :
             /\ r.status = 200
             /\ \A t \in stock_txn(r.db, u.id) : t.qty_delta = -data.used_qty.v
             /\ \A m \in {UsageAfter(r, u.id).material_item_id} :
                   OnHand(r.db, m) = OnHand(db, m) - data.used_qty.v
                                       + (IF m = u.material_item_id THEN u.used_qty ELSE 0)

(* C26 witness: a usage has just been recorded and the quantity on hand of *)
(* a material that was purchased before is below zero.                     *)
C26_Witness ==
    /\ last = [op |-> "create_task_material_usage", status |-> 201]
    /\ \E m \in DOMAIN db.items :
          /\ stock_summary(db, Blank).rows[m].qty_on_hand < 0
          /\ \E t \in db.txns : t.material_item_id = m /\ t.txn_type = "purchase"


----------------------------------------------------------------------------
(* The back-references of the ledger rows.                                 *)

(* The row refers to exactly one source document, and that one exists.     *)
BackReferenceOk(d, t) ==
    /\ (t.purchase_item_id # None) # (t.task_material_usage_id # None)
    /\ t.purchase_item_id # None =>
          /\ t.txn_type = "purchase"
          /\ \E p \in d.purchase_items : p.id = t.purchase_item_id
    /\ t.task_material_usage_id # None =>
          /\ t.txn_type = "task_use"
          /\ \E u \in d.usages : u.id = t.task_material_usage_id

(* C27: in every reachable state every ledger row has exactly one of       *)
(* purchase_item_id and task_material_usage_id set, the document it names  *)
(* exists, and its material is in the catalog; the number of ledger rows   *)
(* is the number of purchase items plus the number of usages.              *)
C27_EveryRowHasOneSourceDocument ==
    /\ \A t \in db.txns : BackReferenceOk(db, t) /\ t.material_item_id \in DOMAIN db.items
    /\ Cardinality(db.txns) = Cardinality(db.purchase_items) + Cardinality(db.usages)
    /\ Cardinality(IdsOf(db.txns)) = Cardinality(db.txns)

(* C27 witness: a usage has been deleted from a ledger with purchase rows; *)
(* its row is gone with it and the purchase rows remain.                   *)
C27_Witness ==
    /\ last = [op |-> "delete_task_material_usage", status |-> 200]
    /\ \E t \in db.txns : t.purchase_item_id # None
    /\ db.seq.usage > Cardinality(db.usages)
    /\ db.seq.txn > Cardinality(db.txns)


----------------------------------------------------------------------------
(* The same update applied twice.                                          *)

(* The usage and its ledger rows after the response.                       *)
UsageAndRow(r, usage_id) == <<UsageAfter(r, usage_id), stock_txn(r.db, usage_id)>>

(* Applying the payload to the usage a second time changes nothing more.   *)
SecondUpdateChangesNothing(d, u, data) ==
    \A once \in {update_task_material_usage(d, Worker, u.task_id, u.id, data)} :
       once.status = 200 =>
          \A twice \in {update_task_material_usage(once.db, Worker, u.task_id, u.id, data)} :
             /\ twice.status = 200
             /\ UsageAndRow(twice, u.id) = UsageAndRow(once, u.id)

(* C28 as stated: applying update-usage twice in a row with the same       *)
(* payload leaves the usage (used_qty, used_date, material,                *)
(* unit_cost_snapshot, total_cost) and its ledger row as applying it once  *)
(* does, for every payload, the empty one and the one with a blank         *)
(* unit_cost_snapshot included.  Refuted for the blank unit_cost_snapshot: *)
(* the average cost it takes is read from a ledger that holds the usage's  *)
(* own row, which the first application rewrites.                          *)
C28_UpdateTwiceIsUpdateOnce ==
    \A u \in db.usages, data \in SnapshotEdits : SecondUpdateChangesNothing(db, u, data)

(* What the code keeps: every payload without a blank unit_cost_snapshot   *)
(* is idempotent.                                                          *)
C28_UpdateTwiceIsUpdateOnceUnlessResnapshot ==
    \A u \in db.usages, data \in SnapshotEdits :
       data.unit_cost_snapshot.t # "blank" => SecondUpdateChangesNothing(db, u, data)


----------------------------------------------------------------------------
(* The closing stock of a month, the stock summary of its last day and the *)
(* opening stock of the next month.                                        *)

NextMonth(ym) == IF ym % 100 = 12 THEN ym + 89 ELSE ym + 1

LastDay(ym) == ym * 100 + DaysIn(ym)

(* C29: in any ledger state, for every month M and material, the report's  *)
(* closing_qty and closing_amount of M are the stock summary's qty_on_hand *)
(* and stock_amount as of the last day of M, and the report's opening_qty  *)
(* and opening_amount of the month after M (January after December).       *)
C29_ClosingIsSummaryIsNextOpening ==
    \A ym \in ReportMonths, today \in Todays :
       \A r \in {monthly_material_report(db, Num(ym), today)},
          s \in {stock_summary(db, Num(LastDay(ym)))},
          following \in {monthly_material_report(db, Num(NextMonth(ym)), today)} :
          /\ r.status = 200 /\ s.status = 200 /\ following.status = 200
          /\ following.month = NextMonth(ym)
          /\ \A m \in DOMAIN db.items :
                /\ r.materials[m].closing_qty = s.rows[m].qty_on_hand
                /\ r.materials[m].closing_amount = s.rows[m].stock_amount
                /\ r.materials[m].closing_qty = following.materials[m].opening_qty
                /\ r.materials[m].closing_amount = following.materials[m].opening_amount

(* C29 witness: a material closes November 2024 with stock bought on the   *)
(* last day of the month, and December with another quantity and amount.   *)
C29_Witness ==
    \E m \in DOMAIN db.items :
       \A nov \in {monthly_material_report(db, Num(202411), 20241215).materials[m]},
          dec \in {monthly_material_report(db, Num(202412), 20241215).materials[m]} :
          /\ \E t \in db.txns : t.material_item_id = m /\ DayOf(t) = LastDay(202411)
          /\ nov.closing_qty > 0
          /\ dec.closing_qty # nov.closing_qty
          /\ dec.closing_amount # nov.closing_amount
          /\ dec.closing_qty # 0

----------------------------------------------------------------------------
(* The supplier table against the ledger's purchases.                      *)

(* Every batch is billed in the month of its purchase date.                *)
StatementMonthsMatch(d) ==
    \A b \in d.batches : b.statement_month = b.purchase_date \div 100

(* C30: when no purchase batch has a statement month other than the month  *)
(* of its purchase date, the report of any month has the suppliers'        *)
(* total_amount sum to the summary's purchase_total_amount (the purchase   *)
(* amounts of all materials from the ledger), and the suppliers'           *)
(* batch_count sum to the summary's purchase_batch_count.                  *)
C30_SuppliersMatchLedgerPurchases ==
    StatementMonthsMatch(db) =>
       \A month \in MonthInputs, today \in Todays :
          \A r \in {monthly_material_report(db, month, today)} :
             /\ r.status = 200
             /\ SumColumn(r.suppliers, DOMAIN r.suppliers, "total_amount")
                   = r.summary.purchase_total_amount
             /\ SumColumn(r.suppliers, DOMAIN r.suppliers, "batch_count")
                   = r.summary.purchase_batch_count

(* C30 witness: the November 2024 report has a supplier with two batches   *)
(* and a second supplier, every batch billed in its purchase month.        *)
C30_Witness ==
    /\ StatementMonthsMatch(db)
    /\ \A r \in {monthly_material_report(db, Num(202411), 20241215)} :
          /\ r.summary.supplier_count = 2
          /\ r.summary.purchase_batch_count = 3
          /\ r.summary.purchase_total_amount > 0

=============================================================================
